---- MODULE Spec2Model ----
(***************************************************************************)
(* Model of the dirty-edit scanner of Wrye Bash                            *)
(* (Mopy/bash/bosh/mods_metadata.py, ModCleaner.scan_Many) and of the      *)
(* progress protocol it drives (Mopy/bash/bolt.py): specification Spec.    *)
(* SpecDetails is ModDetails.readFromMod and SpecFix is                    *)
(* NvidiaFogFixer.fix_fog with Path.untemp (Mopy/bash/bolt_module/paths.py)*)
(* on a disk of three paths: the plugin, its temp file and its backup.     *)
(*                                                                         *)
(* A plugin file is a sequence of words.  One word stands for one          *)
(* fixed-width unit of the file: a record or group header, a subrecord     *)
(* header, or a subrecord payload.  Offsets and sizes are counted in       *)
(* words.  Every word carries all the fields a header decode can ask for,  *)
(* so reading a header at any offset is defined by the word found there.   *)
(***************************************************************************)
EXTENDS Integers, Sequences, FiniteSets, TLC

\* ------------------------------------------------------------------ bounds
MaxFiles == 2
MaxSections == 2
\* calls of fix_fog on the same file
MaxRuns == 2
\* operations on a Settings object after its construction
MaxSettingOps == 3
\* operations on a PickleDict after its construction
MaxPickleOps == 3
\* operations on an OrderedSet after its construction
MaxSetOps == 4

\* --------------------------------------------------------------- constants
UDR == 1
ITM == 2
FOG == 4
DeletedFlag == 32
\* bit 0x00040000 of flags1: the record body is compressed
CompressedFlag == 262144
HeaderSize == 1
SubHeaderSize == 1
XcllSize == 1

\* the floats of an XCLL payload are counted in units of 0.0001, so the
\* value fix_fog writes for near is 1; two more values stand for a
\* signalling and a quiet NaN
Epsilon == 1
SNaN == 7
QNaN == 8

None == -1
NoPos == <<>>
NoEid == 0
NoType == "None"

HasBit(x, b) == (x \div b) % 2 = 1
\* a | b for masks of the three detector bits
BitOr(a, b) ==
    (IF HasBit(a, 1) \/ HasBit(b, 1) THEN 1 ELSE 0)
    + (IF HasBit(a, 2) \/ HasBit(b, 2) THEN 2 ELSE 0)
    + (IF HasBit(a, 4) \/ HasBit(b, 4) THEN 4 ELSE 0)
ALL == BitOr(BitOr(UDR, ITM), FOG)
DEFAULT == BitOr(UDR, ITM)
Truthy(x) == x # None /\ x # 0

UdrTypes == {"ACRE", "ACHR", "REFR", "NAVM", "PHZD", "PGRE"}
CellGroupTypes == {6, 8, 9, 10}
TrackedTops == {"CELL", "WRLD"}

\* ------------------------------------------------------------ file content
Word(tag, size, flags1, fid, groupType, label, val) ==
    [tag |-> tag, size |-> size, flags1 |-> flags1, fid |-> fid,
     groupType |-> groupType, label |-> label, val |-> val]

NoVal == <<0, 0, 0>>

\* a subrecord: its header word, then one payload word
Sub(stype, val) ==
    << Word(stype, 1, 0, 0, 0, "", NoVal), Word("data", 0, 0, 0, 0, "", val) >>

\* a leaf record: header word (size = body size), then the body
Rec(rtype, fid, flags1, body) ==
    << Word(rtype, Len(body), flags1, fid, 0, "", NoVal) >> \o body

\* a top-level group: the label is a record signature
TopGrp(label, body) ==
    << Word("GRUP", HeaderSize + Len(body), 0, 0, 0, label, NoVal) >> \o body

\* a nested group: the label is a number (a fid for types 1, 6, 8, 9, 10)
Grp(groupType, fid, body) ==
    << Word("GRUP", HeaderSize + Len(body), 0, fid, groupType, "", NoVal) >> \o body

Tes4 == Rec("TES4", 0, 0, Sub("HEDR", NoVal))

\* ------------------------------------------------------- compressed bodies
\* One word of a deflate stream.  Its tag is not that of any subrecord; the
\* word it inflates to is kept in the other fields.
Deflate(w) == [w EXCEPT !.tag = "zlib", !.label = w.tag]
Inflate(w) == [w EXCEPT !.tag = w.label, !.label = ""]
DeflateAll(ws) == [n \in 1..Len(ws) |-> Deflate(ws[n])]
InflateAll(ws) == [n \in 1..Len(ws) |-> Inflate(ws[n])]
\* zlib.decompress raises on data that is not a deflate stream
IsStream(ws) == \A n \in 1..Len(ws) : ws[n].tag = "zlib"

\* the width of the declared decompressed size that starts a compressed body
ZSizeWidth == 1
\* what a subrecord-header decode makes of the start of a deflate stream when
\* it takes it for a subrecord size: more than any file of the model holds
ZlibSkip == 40

\* the declared decompressed size n; skip is the size a subrecord-header
\* decode reads when it takes this word and the stream start for a header
ZSize(n, skip) == Word("zsize", skip, 0, 0, 0, "", <<n, 0, 0>>)

\* a leaf record with a compressed body: declared size, then the stream
ZRec(rtype, fid, flags1, body, declared, skip) ==
    << Word(rtype, ZSizeWidth + Len(body), flags1 + CompressedFlag, fid, 0, "", NoVal) >>
    \o << ZSize(declared, skip) >> \o DeflateAll(body)

\* ------------------------------------------------- well-formed file shapes
\* Section k of a file owns the fids 4k+1 .. 4k+4, so fids are unique in a file.
RefIn(k) == 4 * k + 1
RefOut(k) == 4 * k + 2
CellFid(k) == 4 * k + 3
WrldFid(k) == 4 * k + 4
EidOf(fid) == fid + 100
GridOf(fid) == <<fid, 0 - fid, 0>>

Xcll(v) ==
    CASE v = "000" -> <<0, 0, 0>>
      [] v = "001" -> <<0, 0, 1>>
      [] v = "010" -> <<0, 1, 0>>
      [] v = "100" -> <<1, 0, 0>>
      [] v = "nan" -> <<SNaN, 0, 0>>

SectionDesc(kind, gc, r1, f1, r2, f2, edid, xclc, xcll) ==
    [kind |-> kind, gc |-> gc, r1 |-> r1, f1 |-> f1, r2 |-> r2, f2 |-> f2,
     edid |-> edid, xclc |-> xclc, xcll |-> xcll]

CellBody(d, k) ==
    (IF d.edid THEN Sub("EDID", <<EidOf(CellFid(k)), 0, 0>>) ELSE <<>>)
    \o (IF d.xclc THEN Sub("XCLC", GridOf(CellFid(k))) ELSE <<>>)
    \o (IF d.xcll # "none" THEN Sub("XCLL", Xcll(d.xcll)) ELSE <<>>)

\* a CELL record, its children group with one placed record, and optionally one
\* placed record after the children group has ended
CellAndChildren(d, k) ==
    Rec("CELL", CellFid(k), 0, CellBody(d, k))
    \o Grp(d.gc, CellFid(k), Rec(d.r1, RefIn(k), d.f1, <<>>))
    \o (IF d.r2 # "" THEN Rec(d.r2, RefOut(k), d.f2, <<>>) ELSE <<>>)

\* the same, but the CELL header declares one word less than its subrecords
\* take: the last subrecord runs past the declared end of the record
OverrunCellAndChildren(d, k) ==
    << Word("CELL", Len(CellBody(d, k)) - 1, 0, CellFid(k), 0, "", NoVal) >>
    \o CellBody(d, k)
    \o Grp(d.gc, CellFid(k), Rec(d.r1, RefIn(k), d.f1, <<>>))

\* the same, with the CELL record's body compressed; a subrecord-header
\* decode of the body's start reads a size that ends at the record's end
\* ("zin") or beyond the end of the file ("zout")
ZCellAndChildren(d, k) ==
    ZRec("CELL", CellFid(k), 0, CellBody(d, k), Len(CellBody(d, k)),
         IF d.kind = "zin" THEN Len(CellBody(d, k)) ELSE ZlibSkip)
    \o Grp(d.gc, CellFid(k), Rec(d.r1, RefIn(k), d.f1, <<>>))

Section(d, k) ==
    CASE d.kind = "int" ->
           TopGrp("CELL", Grp(2, 0, Grp(3, 0, CellAndChildren(d, k))))
      [] d.kind \in {"zin", "zout"} ->
           TopGrp("CELL", Grp(2, 0, Grp(3, 0, ZCellAndChildren(d, k))))
      [] d.kind = "ext" ->
           TopGrp("WRLD",
                  Rec("WRLD", WrldFid(k), 0, Sub("EDID", <<EidOf(WrldFid(k)), 0, 0>>))
                  \o Grp(1, WrldFid(k), CellAndChildren(d, k)))
      [] d.kind = "ovr" ->
           TopGrp("WRLD",
                  Rec("WRLD", WrldFid(k), 0, Sub("EDID", <<EidOf(WrldFid(k)), 0, 0>>))
                  \o Grp(1, WrldFid(k), OverrunCellAndChildren(d, k)))
      [] d.kind = "opq" ->
           TopGrp("STAT", Rec(d.r1, RefIn(k), d.f1, <<>>))

RECURSIVE Sections(_, _)
Sections(ds, k) ==
    IF ds = <<>> THEN <<>> ELSE Section(Head(ds), k) \o Sections(Tail(ds), k + 1)

\* a ModInfo: its master list, the content of the file at its path,
\* whether that file can be opened when the scan gets to it, and the game
\* it is managed for (bush.game.fsName)
ModInfo(masterNames, words) ==
    [masterNames |-> masterNames, words |-> words, readable |-> TRUE,
     fsName |-> "Oblivion"]

\* a file of the sections ds, the first of them numbered k
PluginFileAt(ds, k) == ModInfo(<<"Master.esm">>, Tes4 \o Sections(ds, k))
PluginFile(ds) == PluginFileAt(ds, 0)

\* the same file with no master
Masterless(f) == ModInfo(<<>>, f.words)

\* the same file managed for the game g
InGame(f, g) == [f EXCEPT !.fsName = g]

\* the same ModInfo when the file at its path cannot be opened
Unreadable(f) == [f EXCEPT !.readable = FALSE]

\* the first n words of a file
Truncated(f, n) == ModInfo(f.masterNames, SubSeq(f.words, 1, n))

Kinds == {"int", "ext"}
XcllVariants == {"none", "000", "001", "010", "100", "nan"}

\* sections that vary the placed record's type and deleted flag
TypeSections ==
    { SectionDesc(kd, 9, r, f, IF o THEN r ELSE "", f, TRUE, TRUE, "none") :
        kd \in Kinds, r \in UdrTypes \cup {"STAT"}, f \in {0, DeletedFlag},
        o \in BOOLEAN }

\* sections that vary the cell's lighting subrecord
FogSections ==
    { SectionDesc(kd, 9, "REFR", f, "", 0, TRUE, TRUE, x) :
        kd \in Kinds, f \in {0, DeletedFlag}, x \in XcllVariants }

\* sections that vary the group type and the cell's subrecords
CtxSections ==
    { SectionDesc(kd, gc, "REFR", DeletedFlag, IF o THEN "ACHR" ELSE "",
                  DeletedFlag, e, x, "none") :
        kd \in Kinds, gc \in CellGroupTypes, o \in BOOLEAN, e \in BOOLEAN,
        x \in BOOLEAN }

\* sections whose CELL record is compressed
ZipSections ==
    { SectionDesc(kd, 9, "REFR", f, "", 0, TRUE, FALSE, x) :
        kd \in {"zin", "zout"}, f \in {0, DeletedFlag}, x \in {"none", "000", "001"} }

\* sections that files of several sections are made of
DirtyInt == SectionDesc("int", 6, "REFR", DeletedFlag, "ACHR", DeletedFlag, TRUE, FALSE, "000")
DirtyExt == SectionDesc("ext", 9, "REFR", DeletedFlag, "ACHR", DeletedFlag, TRUE, TRUE, "none")
BareExt == SectionDesc("ext", 8, "ACHR", DeletedFlag, "", 0, FALSE, FALSE, "001")
CleanInt == SectionDesc("int", 10, "REFR", 0, "", 0, TRUE, FALSE, "none")
Opaque == SectionDesc("opq", 0, "REFR", DeletedFlag, "", 0, FALSE, FALSE, "none")
Overrun == SectionDesc("ovr", 9, "REFR", DeletedFlag, "", 0, TRUE, TRUE, "none")
SeqSections == {DirtyInt, DirtyExt, BareExt, CleanInt, Opaque, Overrun}

RECURSIVE SeqsUpTo(_, _)
SeqsUpTo(S, n) ==
    IF n = 0 THEN {<<>>}
    ELSE LET shorter == SeqsUpTo(S, n - 1)
         IN  shorter \cup { Append(q, x) : q \in shorter, x \in S }

RichFiles ==
    { PluginFile(<<d>>) :
        d \in TypeSections \cup FogSections \cup CtxSections \cup ZipSections }
    \cup { PluginFile(ds) : ds \in SeqsUpTo(SeqSections, MaxSections) }

\* files cut short at every offset, and files without a master
Prefixes(f) == { Truncated(f, n) : n \in 0..(Len(f.words) - 1) }
BrokenFiles == Prefixes(PluginFile(<<DirtyInt>>)) \cup Prefixes(PluginFile(<<DirtyExt>>))
MasterlessFiles ==
    { Masterless(PluginFile(<<d>>)) : d \in SeqSections }
    \cup { Unreadable(Masterless(PluginFile(<<DirtyInt>>))) }

\* a file followed by one more header-sized unit that belongs to no group
Padded(f, w) == ModInfo(f.masterNames, f.words \o <<w>>)

\* trailing units: read as a record header, the first declares an empty
\* body, the second a body of two words
PadWords == { Word("pad", 0, 0, 0, 0, "", NoVal), Word("pad", 2, 0, 0, 0, "", NoVal) }

TrailingFiles ==
    { Padded(PluginFile(<<d>>), w) : d \in {DirtyInt, DirtyExt, CleanInt}, w \in PadWords }

\* a STAT record with or without an editor id; when z, its body is
\* compressed and declares delta words more than the stream inflates to;
\* when bad, the stream is not a deflate stream
StatBody(k, edid) ==
    (IF edid THEN Sub("EDID", <<EidOf(RefIn(k)), 0, 0>>) ELSE <<>>)
    \o Sub("MODL", NoVal)

StatRec(k, v) ==
    IF ~v.z THEN Rec("STAT", RefIn(k), 0, StatBody(k, v.edid))
    ELSE LET r == ZRec("STAT", RefIn(k), 0, StatBody(k, v.edid),
                       Len(StatBody(k, v.edid)) + v.delta, ZlibSkip)
         IN  IF v.bad THEN [r EXCEPT ![Len(r)] = Inflate(r[Len(r)])] ELSE r

StatVariants ==
    { [z |-> FALSE, edid |-> e, delta |-> 0, bad |-> FALSE] : e \in BOOLEAN }
    \cup { [z |-> TRUE, edid |-> e, delta |-> dl, bad |-> FALSE] :
             e \in BOOLEAN, dl \in {0 - 1, 0, 1} }
    \cup { [z |-> TRUE, edid |-> TRUE, delta |-> 0, bad |-> TRUE] }

\* the files readFromMod is called with: a STAT top group of two records
\* followed by a CELL top group, and the files scan_Many is given one by one
StatFiles ==
    { ModInfo(<<"Master.esm">>,
              Tes4 \o TopGrp("STAT", StatRec(0, v1) \o StatRec(1, v2))
              \o Section(DirtyInt, 2)) : v1 \in StatVariants, v2 \in StatVariants }

\* a QUST top group: a quest with an editor id, its children group of type
\* 10 with one scene, and a second quest without an editor id; then a CELL
\* top group
QuestChildren == 10
QuestFiles ==
    { InGame(ModInfo(<<"Master.esm">>,
                     Tes4
                     \o TopGrp("QUST",
                               Rec("QUST", RefIn(0), 0, Sub("EDID", <<EidOf(RefIn(0)), 0, 0>>))
                               \o Grp(QuestChildren, RefIn(0),
                                      Rec("SCEN", RefOut(0), 0,
                                          Sub("EDID", <<EidOf(RefOut(0)), 0, 0>>)))
                               \o Rec("QUST", CellFid(0), 0, Sub("MODL", NoVal)))
                     \o Section(DirtyInt, 2)), g) :
        g \in {"Oblivion", "Fallout4", "Fallout4VR"} }

\* DirtyInt cut after the header of the CELL record's first subrecord
CutFile ==
    Truncated(PluginFileAt(<<DirtyInt>>, 6), Len(Tes4) + 4 * HeaderSize + SubHeaderSize)
\* the files batches are made of; no two of them share a fid
BatchFiles ==
    { PluginFileAt(<<DirtyExt>>, 0), PluginFileAt(<<BareExt>>, 1),
      PluginFileAt(<<DirtyExt, Overrun>>, 2), PluginFileAt(<<CleanInt>>, 4),
      CutFile, Masterless(PluginFileAt(<<DirtyInt>>, 5)),
      Unreadable(PluginFileAt(<<DirtyInt>>, 7)) }

Batches ==
    { <<f>> : f \in RichFiles \cup BrokenFiles \cup MasterlessFiles \cup TrailingFiles }
    \cup SeqsUpTo(BatchFiles, MaxFiles)

\* ------------------------------------------------------------ byte cursor
\* ModReader.read raises when the read would end past the end of the file
ReadOk(words, tell, n) == tell + n <= Len(words)

\* ModReader.atEnd with no end position: the cursor is at the file size
AtEnd(words, tell) == tell = Len(words)

\* RecordHeader.unpack at offset tell (the caller has checked ReadOk)
HeaderAt(words, tell) == words[tell + 1]

\* ------------------------------------------------------- scan_Many locals
UdrInfo(fid, Type, parentFid, parentEid, parentType, parentParentFid, parentParentEid, pos) ==
    [fid |-> fid, type |-> Type, parentFid |-> parentFid, parentEid |-> parentEid,
     parentType |-> parentType, pos |-> pos, parentParentFid |-> parentParentFid,
     parentParentEid |-> parentParentEid]

\* UdrInfo(header_fid): every other argument takes its default
UdrInfoDefault(fid) == UdrInfo(fid, NoType, None, NoEid, None, None, NoEid, NoPos)

EmptyDict == [x \in {} |-> 0]
DictSet(d, k, v) == [x \in (DOMAIN d) \cup {k} |-> IF x = k THEN v ELSE d[x]]
DictDel(d, k) == [x \in (DOMAIN d) \ {k} |-> d[x]]
DictValues(d) == { d[x] : x \in DOMAIN d }

\* the locals of one file's scan; pos is the function-level local that pass 2
\* assigns, <<>> while it is unbound
Locals(tell_, udr_, fog_, pts_, pType_, pFid_, ppFid_, pos_, err_) ==
    [tell |-> tell_, udr |-> udr_, fog |-> fog_, parents_to_scan |-> pts_,
     parentType |-> pType_, parentFid |-> pFid_, parentParentFid |-> ppFid_,
     pos |-> pos_, err |-> err_]

FileLocals(pos_) == Locals(0, EmptyDict, {}, {}, None, None, None, pos_, FALSE)

Failed(L) == [L EXCEPT !.err = TRUE]

\* ------------------------------------------------------------- pass 1
\* a tracker that keeps the current world when an interior cell block starts
Pass1Group_keepWorld(L, words, h, detailed) ==
    LET t1 == L.tell + HeaderSize
    IN  IF h.groupType = 0 /\ h.label \notin TrackedTops
        THEN IF ReadOk(words, t1, h.size - HeaderSize)
             THEN [L EXCEPT !.tell = t1 + h.size - HeaderSize]
             ELSE Failed(L)
        ELSE IF ~detailed THEN [L EXCEPT !.tell = t1]
        ELSE IF h.groupType = 1
             THEN [L EXCEPT !.tell = t1, !.parentParentFid = h.fid,
                            !.parentType = 1, !.parentFid = None]
        ELSE IF h.groupType = 2
             THEN [L EXCEPT !.tell = t1, !.parentType = 0, !.parentFid = None]
        ELSE IF h.groupType \in CellGroupTypes
             THEN [L EXCEPT !.tell = t1, !.parentFid = h.fid]
        ELSE [L EXCEPT !.tell = t1]

\* the group branch: skip an untracked top group, else track the context
Pass1Group(L, words, h, detailed) ==
    LET t1 == L.tell + HeaderSize
    IN  IF h.groupType = 0 /\ h.label \notin TrackedTops
        THEN IF ReadOk(words, t1, h.size - HeaderSize)
             THEN [L EXCEPT !.tell = t1 + h.size - HeaderSize]
             ELSE Failed(L)
        ELSE IF ~detailed THEN [L EXCEPT !.tell = t1]
        ELSE IF h.groupType = 1
             THEN [L EXCEPT !.tell = t1, !.parentParentFid = h.fid,
                            !.parentType = 1, !.parentFid = None]
        ELSE IF h.groupType = 2
             THEN [L EXCEPT !.tell = t1, !.parentType = 0,
                            !.parentParentFid = None, !.parentFid = None]
        ELSE IF h.groupType \in CellGroupTypes
             THEN [L EXCEPT !.tell = t1, !.parentFid = h.fid]
        ELSE [L EXCEPT !.tell = t1]

\* the deleted-reference test of a leaf record
IsUdr(h, doUDR) == doUDR /\ HasBit(h.flags1, DeletedFlag) /\ h.tag \in UdrTypes

\* the finding recorded for a deleted reference, and the worklist entries
RecordUdr(L, h, detailed) ==
    IF ~detailed
    THEN [L EXCEPT !.udr = DictSet(L.udr, h.fid, UdrInfoDefault(h.fid))]
    ELSE [L EXCEPT
            !.udr = DictSet(L.udr, h.fid,
                            UdrInfo(h.fid, h.tag, L.parentFid, NoEid, L.parentType,
                                    L.parentParentFid, NoEid, NoPos)),
            !.parents_to_scan =
                L.parents_to_scan \cup {<<L.parentFid, h.fid>>}
                \cup (IF Truthy(L.parentParentFid)
                      THEN {<<L.parentParentFid, h.fid>>} ELSE {})]

FogDefect(val) == ~(val[1] # 0 \/ val[2] # 0 \/ val[3] # 0)

\* the subrecord loop over a CELL record, from offset tell to nextRecord
RECURSIVE FogWalk(_, _, _, _, _)
FogWalk(words, tell_, nextRecord, fog_, fid) ==
    IF ~(tell_ < nextRecord) THEN [tell |-> tell_, fog |-> fog_, err |-> FALSE]
    ELSE IF ~ReadOk(words, tell_, SubHeaderSize)
         THEN [tell |-> tell_, fog |-> fog_, err |-> TRUE]
    ELSE LET sh == words[tell_ + 1]
             t1 == tell_ + SubHeaderSize
         IN  IF ~ReadOk(words, t1, sh.size)
             THEN [tell |-> t1, fog |-> fog_, err |-> TRUE]
             ELSE IF sh.tag # "XCLL"
             THEN FogWalk(words, t1 + sh.size, nextRecord, fog_, fid)
             ELSE IF sh.size # XcllSize
             THEN [tell |-> t1 + sh.size, fog |-> fog_, err |-> TRUE]
             ELSE FogWalk(words, t1 + sh.size, nextRecord,
                          IF FogDefect(words[t1 + 1].val) THEN fog_ \cup {fid} ELSE fog_,
                          fid)

\* the leaf branch: classify, then walk or skip the body
Pass1Leaf(L, words, h, doUDR, doFog, detailed) ==
    LET t1 == L.tell + HeaderSize
        L1 == IF IsUdr(h, doUDR) THEN RecordUdr(L, h, detailed) ELSE L
    IN  IF doFog /\ h.tag = "CELL"
        THEN LET w == FogWalk(words, t1, t1 + h.size, L1.fog, h.fid)
             IN  IF w.err THEN Failed(L1)
                 ELSE [L1 EXCEPT !.tell = w.tell, !.fog = w.fog]
        ELSE IF ReadOk(words, t1, h.size)
             THEN [L1 EXCEPT !.tell = t1 + h.size]
             ELSE Failed(L1)

\* a scan that takes the ITM bit for a request to look for deleted references
Pass1Iter_itm(L, words, what_, detailed) ==
    IF ~ReadOk(words, L.tell, HeaderSize) THEN Failed(L)
    ELSE LET h == HeaderAt(words, L.tell)
         IN  IF h.tag = "GRUP"
             THEN Pass1Group(L, words, h, detailed)
             ELSE Pass1Leaf(L, words, h, HasBit(what_, UDR) \/ HasBit(what_, ITM),
                            HasBit(what_, FOG), detailed)

\* one iteration of the pass-1 loop
Pass1Iter(L, words, what_, detailed) ==
    IF ~ReadOk(words, L.tell, HeaderSize) THEN Failed(L)
    ELSE LET h == HeaderAt(words, L.tell)
         IN  IF h.tag = "GRUP"
             THEN Pass1Group(L, words, h, detailed)
             ELSE Pass1Leaf(L, words, h, HasBit(what_, UDR), HasBit(what_, FOG), detailed)

\* ------------------------------------------------------------- pass 2
\* MreRecord.loadSubrecords over the record body [from, to): the subrecords
\* in file order, or an error when a subrecord runs past the body
RECURSIVE LoadSubrecords(_, _, _, _)
LoadSubrecords(words, from, to, acc) ==
    IF from = to THEN [subrecords |-> acc, err |-> FALSE]
    ELSE IF from + SubHeaderSize > to THEN [subrecords |-> acc, err |-> TRUE]
    ELSE LET sh == words[from + 1]
             t1 == from + SubHeaderSize
         IN  IF t1 + sh.size > to THEN [subrecords |-> acc, err |-> TRUE]
             ELSE LoadSubrecords(words, t1 + sh.size, to,
                     Append(acc, [subType |-> sh.tag,
                                  data |-> IF sh.size > 0 THEN words[t1 + 1].val
                                           ELSE NoVal]))

\* MreRecord.load and loadSubrecords for the record h whose body starts at
\* t1: a compressed body is inflated first, and a stream that does not
\* inflate to its declared size is an error
RecordSubrecords(words, h, t1) ==
    IF ~HasBit(h.flags1, CompressedFlag)
    THEN LoadSubrecords(words, t1, t1 + h.size, <<>>)
    ELSE IF h.size < ZSizeWidth THEN [subrecords |-> <<>>, err |-> TRUE]
    ELSE LET stream == SubSeq(words, t1 + ZSizeWidth + 1, t1 + h.size)
         IN  IF ~IsStream(stream) \/ words[t1 + 1].val[1] # Len(stream)
             THEN [subrecords |-> <<>>, err |-> TRUE]
             ELSE LoadSubrecords(InflateAll(stream), 0, Len(stream), <<>>)

\* the value the subrecord loop leaves in a local: that of the last subrecord
\* of the given type, or the value the local had before the loop
RECURSIVE LastOf(_, _, _)
LastOf(subs, subType, before) ==
    IF subs = <<>> THEN before
    ELSE LastOf(Tail(subs), subType,
                IF Head(subs).subType = subType THEN Head(subs).data ELSE before)

InWorklist(pts, fid) == \E e \in pts : e[1] = fid
Waiting(pts, fid) == { e[2] : e \in { x \in pts : x[1] = fid } }

\* the findings after the parent record (rtype, eid, pos) has been resolved
Resolve(udr_, targets, rtype, eid, pos_) ==
    [f \in DOMAIN udr_ |->
        IF f \notin targets THEN udr_[f]
        ELSE IF rtype = "CELL"
             THEN [udr_[f] EXCEPT !.parentEid = eid,
                                  !.pos = IF udr_[f].parentType = 1 THEN pos_ ELSE @]
        ELSE IF rtype = "WRLD"
             THEN [udr_[f] EXCEPT !.parentParentEid = eid]
        ELSE udr_[f]]

\* the leaf branch of pass 2
Pass2Leaf(L, words, h) ==
    LET t1 == L.tell + HeaderSize
    IN  IF ~InWorklist(L.parents_to_scan, h.fid)
        THEN IF ReadOk(words, t1, h.size) THEN [L EXCEPT !.tell = t1 + h.size]
             ELSE Failed(L)
        ELSE IF ~ReadOk(words, t1, h.size) THEN Failed(L)
        ELSE LET rec == RecordSubrecords(words, h, t1)
                 eidv == LastOf(rec.subrecords, "EDID", <<NoEid, 0, 0>>)
                 xclc == LastOf(rec.subrecords, "XCLC", <<>>)
                 pos1 == IF xclc = <<>> THEN L.pos ELSE <<xclc[1], xclc[2]>>
                 targets == Waiting(L.parents_to_scan, h.fid)
                 unbound == h.tag = "CELL" /\ pos1 = NoPos
                            /\ \E f \in targets : L.udr[f].parentType = 1
             IN  IF rec.err THEN Failed(L)
                 ELSE IF unbound THEN Failed([L EXCEPT !.pos = pos1])
                 ELSE [L EXCEPT !.tell = t1 + h.size, !.pos = pos1,
                                !.udr = Resolve(L.udr, targets, h.tag, eidv[1], pos1)]

\* a second pass that steps into every group
Pass2Iter_enterOpaque(L, words) ==
    IF ~ReadOk(words, L.tell, HeaderSize) THEN Failed(L)
    ELSE LET h == HeaderAt(words, L.tell)
             t1 == L.tell + HeaderSize
         IN  IF h.tag = "GRUP"
             THEN [L EXCEPT !.tell = t1]
             ELSE Pass2Leaf(L, words, h)

\* one iteration of the pass-2 loop
Pass2Iter(L, words) ==
    IF ~ReadOk(words, L.tell, HeaderSize) THEN Failed(L)
    ELSE LET h == HeaderAt(words, L.tell)
             t1 == L.tell + HeaderSize
         IN  IF h.tag = "GRUP"
             THEN IF h.groupType = 0 /\ h.label \notin TrackedTops
                  THEN IF ReadOk(words, t1, h.size - HeaderSize)
                       THEN [L EXCEPT !.tell = t1 + h.size - HeaderSize]
                       ELSE Failed(L)
                  ELSE [L EXCEPT !.tell = t1]
             ELSE Pass2Leaf(L, words, h)

\* ------------------------------------------------------------ results
Some(x) == <<x>>
Absent == <<>>

\* the tuple appended for a file: (udr.values() or None, itm, fog)
ResultOf(L) ==
    IF L.err THEN <<Absent, Absent, Absent>>
    ELSE <<Some(DictValues(L.udr)), Some({}), Some(L.fog)>>

EmptyResult == <<Some({}), Some({}), Some({})>>
Undetermined == <<Absent, Absent, Absent>>

\* --------------------------------------------- a whole scan, uninterrupted
\* the first loop run to its end or to a decode error
RECURSIVE RunPass1(_, _, _, _)
RunPass1(L, words, what_, detailed_) ==
    IF L.err \/ AtEnd(words, L.tell) THEN L
    ELSE RunPass1(Pass1Iter(L, words, what_, detailed_), words, what_, detailed_)

\* the second loop run to its end or to a decode error
RECURSIVE RunPass2(_, _)
RunPass2(L, words) ==
    IF L.err \/ AtEnd(words, L.tell) THEN L
    ELSE RunPass2(Pass2Iter(L, words), words)

\* the locals when the scan of one file ends, given the value of pos before it
ScanFile(info, what_, detailed_, pos_) ==
    IF Len(info.masterNames) = 0 THEN FileLocals(pos_)
    ELSE LET L1 == RunPass1(FileLocals(pos_), info.words, what_, detailed_)
         IN  IF L1.err \/ L1.parents_to_scan = {} THEN L1
             ELSE RunPass2([L1 EXCEPT !.tell = 0], info.words)

\* a scan that opens every file
OpenFails_always(info) == ~info.readable

\* path.open('rb') raises IOError: the file has a master and cannot be opened
OpenFails(info) == Len(info.masterNames) > 0 /\ ~info.readable

\* the list the loop builds, up to the file whose open raises, if any
RECURSIVE ScanLoop(_, _, _, _)
ScanLoop(infos, what_, detailed_, pos_) ==
    IF infos = <<>> THEN <<>>
    ELSE IF OpenFails(Head(infos)) THEN <<>>
    ELSE LET L == ScanFile(Head(infos), what_, detailed_, pos_)
         IN  <<ResultOf(L)>> \o ScanLoop(Tail(infos), what_, detailed_, L.pos)

\* what scan_Many returns for a batch when the progress callback never raises
\* and every file with a master can be opened
ScanManyResult(infos, what_, detailed_) ==
    IF Len(infos) = 0 THEN <<>>
    ELSE IF ~(HasBit(what_, UDR) \/ HasBit(what_, FOG))
    THEN [k \in 1..Len(infos) |-> EmptyResult]
    ELSE ScanLoop(infos, what_, detailed_, NoPos)

\* ------------------------------------------------------------ the scan
VARIABLES
    modInfos,          \* the batch: a sequence of plugin files
    what,              \* the detector mask
    detailed,          \* whether parent details are wanted
    pc,                \* "start", "file", "pass1", "pass2", "done", "raised"
    i,                 \* index of the current file, from 0
    ret,               \* the results appended so far
    tell,              \* the cursor of the open file
    udr, fog, parents_to_scan,
    parentType, parentFid, parentParentFid,
    pos,               \* the local pass 2 assigns
    exc,               \* the exception that left the call, "" if none
    reported,          \* the last fraction the progress callback was given
    group_records,     \* ModDetails.group_records
    records,           \* readFromMod: the key of the list records are added to
    disk,              \* the files at path, path.temp and the backup path
    fixedCells,        \* NvidiaFogFixer.fixedCells
    runs,              \* the calls of fix_fog that have returned
    settings,          \* a bolt.Settings object and its dictFile
    pickle,            \* a bolt.PickleDict, its two files and its last load
    oset               \* a bolt OrderedSet

\* the variables of readFromMod and fix_fog, which scan_Many leaves alone
otherVars == <<group_records, records, disk, fixedCells, runs, settings, pickle, oset>>
\* the objects of bolt, which no plugin operation touches
libVars == <<settings, pickle, oset>>
\* the variables of scan_Many only
scanVars == <<what, detailed, i, ret, udr, fog, parents_to_scan, parentType,
              parentFid, parentParentFid, pos, reported>>

vars == <<modInfos, what, detailed, pc, i, ret, tell, udr, fog, parents_to_scan,
          parentType, parentFid, parentParentFid, pos, exc, reported,
          group_records, records, disk, fixedCells, runs, settings, pickle, oset>>

\* nothing was reported yet
NoReport == <<>>
\* no object of the class was made
NoObject == <<>>

\* a file that does not exist, and one with the given content
Missing == <<>>
File(words) == <<words>>
NoDisk == [plugin |-> Missing, temp |-> Missing, backup |-> Missing]

Masks == 0..ALL

Init ==
    /\ modInfos \in Batches
    /\ what \in Masks
    /\ detailed \in BOOLEAN
    /\ pc = "start"
    /\ i = 0
    /\ ret = <<>>
    /\ tell = 0
    /\ udr = EmptyDict
    /\ fog = {}
    /\ parents_to_scan = {}
    /\ parentType = None
    /\ parentFid = None
    /\ parentParentFid = None
    /\ pos = NoPos
    /\ exc = ""
    /\ reported = NoReport
    /\ group_records = EmptyDict
    /\ records = ""
    /\ disk = NoDisk
    /\ fixedCells = {}
    /\ runs = 0
    /\ settings = NoObject
    /\ pickle = NoObject
    /\ oset = NoObject

N == Len(modInfos)

\* ----------------------------------------------- bolt.Progress, SubProgress
\* the floats of the progress protocol, as exact fractions <<num, den>>
RatOf(n) == <<n, 1>>
RatAdd(a, b) == <<a[1] * b[2] + b[1] * a[2], a[2] * b[2]>>
RatMul(a, b) == <<a[1] * b[1], a[2] * b[2]>>
RatDiv(a, b) == <<a[1] * b[2], a[2] * b[1]>>
Max(a, b) == IF a >= b THEN a ELSE b

\* Progress.__call__ of a meter whose full is set: the fraction given to
\* _do_progress
ProgressCall(full, state) == RatDiv(state, RatOf(full))

\* SubProgress.__call__: the state given to the parent meter
SubProgressCall(baseFrom, baseTo, full, state) ==
    RatAdd(RatOf(baseFrom),
           RatDiv(RatMul(RatOf(baseTo - baseFrom), RatOf(state)), RatOf(full)))

\* lines 419-423: subprogress.setFull
SubFull(size, detailed_) == IF detailed_ THEN Max(size * 2, 1) ELSE Max(size, 1)

\* a second loop that reports the bare offset
Pass2State_noBase(baseSize, tell_) == tell_

\* line 500: the state given to subprogress in the second loop
Pass2State(baseSize, tell_) == baseSize + tell_

\* the fraction the top-level callback gets for the state given to the
\* subprogress of file i
FileFraction(state) ==
    ProgressCall(Max(N, 1),
                 SubProgressCall(i, i + 1, SubFull(Len(modInfos[i + 1].words), detailed),
                                 state))
modInfo == modInfos[i + 1]
Cur == Locals(tell, udr, fog, parents_to_scan, parentType, parentFid,
              parentParentFid, pos, FALSE)

\* the locals of the file being scanned become L
SetLocals(L) ==
    /\ tell' = L.tell
    /\ udr' = L.udr
    /\ fog' = L.fog
    /\ parents_to_scan' = L.parents_to_scan
    /\ parentType' = L.parentType
    /\ parentFid' = L.parentFid
    /\ parentParentFid' = L.parentParentFid
    /\ pos' = L.pos

\* ret.append(...) and on to the next file
FinishFile(L) ==
    /\ ret' = Append(ret, ResultOf(L))
    /\ i' = i + 1
    /\ pc' = "file"
    /\ SetLocals(L)

\* a scan whose handler takes the cancellation for a decode error
Cancel_swallowed ==
    /\ pc \in {"pass1", "pass2"}
    /\ FinishFile(Failed(Cur))
    /\ UNCHANGED <<modInfos, what, detailed, exc>>

\* the progress callback raised CancelError and nothing caught it
Cancel ==
    /\ pc' = "raised"
    /\ exc' = "CancelError"
    /\ UNCHANGED <<modInfos, what, detailed, i, ret, tell, udr, fog, parents_to_scan,
                   parentType, parentFid, parentParentFid, pos>>

\* lines 403-410: the two early returns, else the loop is entered
Enter ==
    /\ pc = "start"
    /\ IF N = 0
       THEN pc' = "done" /\ ret' = <<>>
       ELSE IF ~(HasBit(what, UDR) \/ HasBit(what, FOG))
       THEN pc' = "done" /\ ret' = [k \in 1..N |-> EmptyResult]
       ELSE pc' = "file" /\ ret' = <<>>
    /\ UNCHANGED <<modInfos, what, detailed, i, tell, udr, fog, parents_to_scan,
                   parentType, parentFid, parentParentFid, pos, exc>>
    /\ UNCHANGED <<reported, otherVars>>

\* lines 411-431: progress(i), fresh per-file locals, open the file if it has
\* a master, else append the empty result at once; the open is outside the
\* try statement, so its IOError leaves scan_Many
StartFile ==
    /\ pc = "file"
    /\ i < N
    /\ \E cancel \in BOOLEAN :
         IF cancel THEN Cancel
         ELSE /\ IF OpenFails(modInfo)
                 THEN /\ pc' = "raised"
                      /\ exc' = "IOError"
                      /\ SetLocals(FileLocals(pos))
                      /\ UNCHANGED <<i, ret>>
                 ELSE IF Len(modInfo.masterNames) > 0
                 THEN /\ pc' = "pass1"
                      /\ SetLocals(FileLocals(pos))
                      /\ UNCHANGED <<i, ret, exc>>
                 ELSE FinishFile(FileLocals(pos)) /\ UNCHANGED exc
              /\ UNCHANGED <<modInfos, what, detailed>>
    /\ reported' = ProgressCall(Max(N, 1), RatOf(i))
    /\ UNCHANGED otherVars

\* line 535: return ret
Return ==
    /\ pc = "file"
    /\ i = N
    /\ pc' = "done"
    /\ UNCHANGED <<modInfos, what, detailed, i, ret, tell, udr, fog, parents_to_scan,
                   parentType, parentFid, parentParentFid, pos, exc>>
    /\ UNCHANGED <<reported, otherVars>>

\* lines 440-494: one iteration of the first loop; a decode error ends the
\* file with the undetermined result
Pass1Step ==
    /\ pc = "pass1"
    /\ ~AtEnd(modInfo.words, tell)
    /\ \E cancel \in BOOLEAN :
         IF cancel THEN Cancel
         ELSE LET L == Pass1Iter(Cur, modInfo.words, what, detailed)
              IN  /\ IF L.err THEN FinishFile(L)
                     ELSE SetLocals(L) /\ UNCHANGED <<pc, i, ret>>
                  /\ UNCHANGED <<modInfos, what, detailed, exc>>
    /\ reported' = FileFraction(tell)
    /\ UNCHANGED otherVars

\* a scan that starts the second loop where the first one ended
Pass1Done_noSeek ==
    /\ pc = "pass1"
    /\ AtEnd(modInfo.words, tell)
    /\ IF parents_to_scan # {}
       THEN /\ pc' = "pass2"
            /\ UNCHANGED <<i, ret, tell, udr, fog, parents_to_scan, parentType,
                           parentFid, parentParentFid, pos>>
       ELSE FinishFile(Cur)
    /\ UNCHANGED <<modInfos, what, detailed, exc>>
    /\ UNCHANGED <<reported, otherVars>>

\* lines 495-497: the first loop has ended; seek(0) for pass 2 if the
\* worklist is not empty, else the file is done
Pass1Done ==
    /\ pc = "pass1"
    /\ AtEnd(modInfo.words, tell)
    /\ IF parents_to_scan # {}
       THEN /\ pc' = "pass2"
            /\ tell' = 0
            /\ UNCHANGED <<i, ret, udr, fog, parents_to_scan, parentType, parentFid,
                           parentParentFid, pos>>
       ELSE FinishFile(Cur)
    /\ UNCHANGED <<modInfos, what, detailed, exc>>
    /\ UNCHANGED <<reported, otherVars>>

\* lines 499-527: one iteration of the second loop
Pass2Step ==
    /\ pc = "pass2"
    /\ ~AtEnd(modInfo.words, tell)
    /\ \E cancel \in BOOLEAN :
         IF cancel THEN Cancel
         ELSE LET L == Pass2Iter(Cur, modInfo.words)
              IN  /\ IF L.err THEN FinishFile(L)
                     ELSE SetLocals(L) /\ UNCHANGED <<pc, i, ret>>
                  /\ UNCHANGED <<modInfos, what, detailed, exc>>
    /\ reported' = FileFraction(Pass2State(Len(modInfo.words), tell))
    /\ UNCHANGED otherVars

\* line 534 after the second loop has ended
Pass2Done ==
    /\ pc = "pass2"
    /\ AtEnd(modInfo.words, tell)
    /\ FinishFile(Cur)
    /\ UNCHANGED <<modInfos, what, detailed, exc>>
    /\ UNCHANGED <<reported, otherVars>>

Next ==
    \/ Enter
    \/ StartFile
    \/ Return
    \/ Pass1Step
    \/ Pass1Done
    \/ Pass2Step
    \/ Pass2Done

Spec == Init /\ [][Next]_vars

\* --------------------------------------------- ModDetails.readFromMod
\* bush.game.Esp.plugin_header_sig
HeaderSig == "TES4"
SkippedLabels == {"CELL", "WRLD", "DIAL"}
\* the games whose groups of type 10 are skipped
Fallout4Games == {"Fallout4", "Fallout4VR"}

\* header.label as a key of group_records: a signature for a top-level
\* group, a number for a nested one
GroupKey(h) == IF h.groupType = 0 THEN h.label ELSE ToString(h.fid)

\* ModReader.seek raises when the target is past the end of the data
SeekOk(ws, target) == target <= Len(ws)

\* a reader that hands out the body unchecked, whatever size it declares
GetRecordReader_unchecked(words, h, t1) ==
    IF ~HasBit(h.flags1, CompressedFlag)
    THEN [ws |-> words, from |-> t1, to |-> t1 + h.size, err |-> ""]
    ELSE IF ~ReadOk(words, t1, ZSizeWidth) \/ h.size < ZSizeWidth
            \/ ~ReadOk(words, t1 + ZSizeWidth, h.size - ZSizeWidth)
    THEN [ws |-> <<>>, from |-> 0, to |-> 0, err |-> "ModReadError"]
    ELSE LET sizeCheck == words[t1 + 1].val[1]
             stream == SubSeq(words, t1 + ZSizeWidth + 1, t1 + h.size)
         IN  IF ~IsStream(stream)
             THEN [ws |-> <<>>, from |-> 0, to |-> 0, err |-> "zlib.error"]
             ELSE [ws |-> InflateAll(stream), from |-> 0, to |-> Len(stream), err |-> ""]

\* lines 608-620: the reader of a record's subrecords, its end offset, and
\* the exception raised instead, if any
GetRecordReader(words, h, t1) ==
    IF ~HasBit(h.flags1, CompressedFlag)
    THEN [ws |-> words, from |-> t1, to |-> t1 + h.size, err |-> ""]
    ELSE IF ~ReadOk(words, t1, ZSizeWidth) \/ h.size < ZSizeWidth
            \/ ~ReadOk(words, t1 + ZSizeWidth, h.size - ZSizeWidth)
    THEN [ws |-> <<>>, from |-> 0, to |-> 0, err |-> "ModReadError"]
    ELSE LET sizeCheck == words[t1 + 1].val[1]
             stream == SubSeq(words, t1 + ZSizeWidth + 1, t1 + h.size)
         IN  IF ~IsStream(stream)
             THEN [ws |-> <<>>, from |-> 0, to |-> 0, err |-> "zlib.error"]
             ELSE IF Len(stream) # sizeCheck
             THEN [ws |-> <<>>, from |-> 0, to |-> 0, err |-> "ModError"]
             ELSE [ws |-> InflateAll(stream), from |-> 0, to |-> sizeCheck, err |-> ""]

\* lines 643-648: the editor id the subrecord loop over [from, to) leaves:
\* that of the first EDID subrecord, the empty one if there is none
RECURSIVE FirstEid(_, _, _)
FirstEid(ws, from, to) ==
    IF ~(from < to) THEN [eid |-> NoEid, err |-> ""]
    ELSE IF ~ReadOk(ws, from, SubHeaderSize) THEN [eid |-> NoEid, err |-> "ModReadError"]
    ELSE LET sh == ws[from + 1]
             t1 == from + SubHeaderSize
         IN  IF sh.tag = "EDID"
             THEN IF ~ReadOk(ws, t1, sh.size) THEN [eid |-> NoEid, err |-> "ModReadError"]
                  ELSE [eid |-> IF sh.size > 0 THEN ws[t1 + 1].val[1] ELSE NoEid,
                        err |-> ""]
             ELSE IF ~SeekOk(ws, t1 + sh.size) THEN [eid |-> NoEid, err |-> "ModReadError"]
             ELSE FirstEid(ws, t1 + sh.size, to)

\* the locals of readFromMod
DetailLocals(tell_, group_records_, records_, err_) ==
    [tell |-> tell_, group_records |-> group_records_, records |-> records_,
     err |-> err_]

\* lines 626-650: one iteration of the loop, the header h read at D.tell
DetailsIter(D, words, h, fsName) ==
    LET t1 == D.tell + HeaderSize
    IN  IF h.tag = "GRUP" /\ fsName \in Fallout4Games /\ h.groupType = QuestChildren
        THEN IF SeekOk(words, D.tell + h.size)
             THEN [D EXCEPT !.tell = D.tell + h.size]
             ELSE [D EXCEPT !.err = "ModReadError"]
        ELSE IF h.tag = "GRUP"
        THEN LET key == GroupKey(h)
                 gr == IF key \in DOMAIN D.group_records THEN D.group_records
                       ELSE DictSet(D.group_records, key, <<>>)
                 D1 == [D EXCEPT !.group_records = gr, !.records = key]
             IN  IF h.groupType = 0 /\ h.label \in SkippedLabels
                 THEN IF SeekOk(words, D.tell + h.size)
                      THEN [D1 EXCEPT !.tell = D.tell + h.size]
                      ELSE [D1 EXCEPT !.err = "ModReadError"]
                 ELSE [D1 EXCEPT !.tell = t1]
        ELSE LET nextRecord == t1 + h.size
                 rr == GetRecordReader(words, h, t1)
                 e == FirstEid(rr.ws, rr.from, rr.to)
             IN  IF rr.err # "" THEN [D EXCEPT !.err = rr.err]
                 ELSE IF e.err # "" THEN [D EXCEPT !.err = e.err]
                 ELSE LET gr == [D.group_records EXCEPT
                                   ![D.records] = Append(@, <<h.fid, e.eid>>)]
                      IN  IF SeekOk(words, nextRecord)
                          THEN [D EXCEPT !.group_records = gr, !.tell = nextRecord]
                          ELSE [D EXCEPT !.group_records = gr, !.err = "ModReadError"]

DetailFiles ==
    StatFiles \cup QuestFiles \cup RichFiles \cup BrokenFiles \cup TrailingFiles
    \cup { Unreadable(PluginFile(<<DirtyInt>>)) }

InitDetails ==
    /\ modInfos \in { <<f>> : f \in DetailFiles }
    /\ pc = "det_start"
    /\ what = 0
    /\ detailed = FALSE
    /\ i = 0
    /\ ret = <<>>
    /\ tell = 0
    /\ udr = EmptyDict
    /\ fog = {}
    /\ parents_to_scan = {}
    /\ parentType = None
    /\ parentFid = None
    /\ parentParentFid = None
    /\ pos = NoPos
    /\ exc = ""
    /\ reported = NoReport
    /\ group_records = EmptyDict
    /\ records = ""
    /\ disk = NoDisk
    /\ fixedCells = {}
    /\ runs = 0
    /\ settings = NoObject
    /\ pickle = NoObject
    /\ oset = NoObject

\* lines 621-624: a fresh group_records with the list of the plugin header,
\* then the file is opened
DetailsEnter ==
    /\ pc = "det_start"
    /\ group_records' = DictSet(EmptyDict, HeaderSig, <<>>)
    /\ records' = HeaderSig
    /\ tell' = 0
    /\ IF modInfo.readable
       THEN pc' = "det_loop" /\ exc' = exc
       ELSE pc' = "raised" /\ exc' = "IOError"
    /\ UNCHANGED <<modInfos, scanVars, libVars, disk, fixedCells, runs>>

\* lines 625-650: one iteration; progress is called for a group header only,
\* and no exception is caught
DetailsStep ==
    /\ pc = "det_loop"
    /\ ~AtEnd(modInfo.words, tell)
    /\ IF ~ReadOk(modInfo.words, tell, HeaderSize)
       THEN /\ pc' = "raised" /\ exc' = "ModReadError"
            /\ UNCHANGED <<tell, group_records, records>>
       ELSE LET h == HeaderAt(modInfo.words, tell)
                D == DetailsIter(DetailLocals(tell, group_records, records, ""),
                                 modInfo.words, h, modInfo.fsName)
            IN  \E cancel \in BOOLEAN :
                  IF /\ cancel
                     /\ h.tag = "GRUP"
                     /\ ~(modInfo.fsName \in Fallout4Games /\ h.groupType = QuestChildren)
                  THEN /\ pc' = "raised" /\ exc' = "CancelError"
                       /\ UNCHANGED <<tell, group_records, records>>
                  ELSE /\ tell' = D.tell
                       /\ group_records' = D.group_records
                       /\ records' = D.records
                       /\ IF D.err # "" THEN pc' = "raised" /\ exc' = D.err
                          ELSE pc' = pc /\ exc' = exc
    /\ UNCHANGED <<modInfos, scanVars, libVars, disk, fixedCells, runs>>

\* line 651: the loop has reached the end of the file; the list of the
\* plugin header is deleted and readFromMod returns
DetailsReturn ==
    /\ pc = "det_loop"
    /\ AtEnd(modInfo.words, tell)
    /\ pc' = "det_done"
    /\ group_records' = DictDel(group_records, HeaderSig)
    /\ UNCHANGED <<modInfos, scanVars, libVars, tell, exc, records, disk, fixedCells, runs>>

NextDetails ==
    \/ DetailsEnter
    \/ DetailsStep
    \/ DetailsReturn

SpecDetails == InitDetails /\ [][NextDetails]_vars

\* --------------------------------------------- NvidiaFogFixer.fix_fog
\* struct unpack of the three floats: a float is widened to a double, which
\* turns a signalling NaN into a quiet one
Unpacked(val) == [n \in 1..3 |-> IF val[n] = SNaN THEN QNaN ELSE val[n]]

\* a fixer that writes zero for near
PatchXcll_zero(val) ==
    LET v == Unpacked(val)
    IN  IF FogDefect(v) THEN <<0, v[2], v[3]>> ELSE v

\* lines 583-588: the payload written for the XCLL payload val
PatchXcll(val) ==
    LET v == Unpacked(val)
    IN  IF FogDefect(v) THEN <<Epsilon, v[2], v[3]>> ELSE v

\* what one iteration has done: the cursor, the words written to out, the
\* fixed cells, and the exception raised, if any
FixResult(tell_, written_, fixed_, err_) ==
    [tell |-> tell_, written |-> written_, fixed |-> fixed_, err |-> err_]

\* lines 576-588: the subrecord loop over a CELL record
RECURSIVE FixCell(_, _, _, _, _, _)
FixCell(words, tell_, nextRecord, written, fixed, fid) ==
    IF ~(tell_ < nextRecord) THEN FixResult(tell_, written, fixed, "")
    ELSE IF ~ReadOk(words, tell_, SubHeaderSize)
    THEN FixResult(tell_, written, fixed, "ModReadError")
    ELSE LET sh == words[tell_ + 1]
             t1 == tell_ + SubHeaderSize
             w1 == Append(written, sh)
         IN  IF ~ReadOk(words, t1, sh.size)
             THEN FixResult(t1, w1, fixed, "ModReadError")
             ELSE IF sh.tag # "XCLL"
             THEN FixCell(words, t1 + sh.size, nextRecord,
                          w1 \o SubSeq(words, t1 + 1, t1 + sh.size), fixed, fid)
             ELSE IF sh.size # XcllSize
             THEN FixResult(t1 + sh.size, w1, fixed, "struct.error")
             ELSE FixCell(words, t1 + sh.size, nextRecord,
                          Append(w1, [words[t1 + 1] EXCEPT !.val = PatchXcll(@)]),
                          IF FogDefect(Unpacked(words[t1 + 1].val))
                          THEN fixed \cup {fid} ELSE fixed,
                          fid)

\* a fixer that copies every top group but the CELL group as a block
FixIter_cellOnly(words, tell_, fixed) ==
    IF ~ReadOk(words, tell_, HeaderSize) THEN FixResult(tell_, <<>>, fixed, "ModReadError")
    ELSE LET h == HeaderAt(words, tell_)
             t1 == tell_ + HeaderSize
         IN  IF h.tag = "GRUP"
             THEN IF h.groupType # 0 \/ h.label = "CELL"
                  THEN FixResult(t1, <<h>>, fixed, "")
                  ELSE IF ReadOk(words, t1, h.size - HeaderSize)
                  THEN FixResult(tell_ + h.size,
                                 <<h>> \o SubSeq(words, t1 + 1, tell_ + h.size), fixed, "")
                  ELSE FixResult(t1, <<h>>, fixed, "ModReadError")
             ELSE IF h.tag = "CELL"
             THEN FixCell(words, t1, t1 + h.size, <<h>>, fixed, h.fid)
             ELSE IF ReadOk(words, t1, h.size)
             THEN FixResult(t1 + h.size,
                            <<h>> \o SubSeq(words, t1 + 1, t1 + h.size), fixed, "")
             ELSE FixResult(t1, <<h>>, fixed, "ModReadError")

\* lines 564-591: one iteration of the loop at offset tell_
FixIter(words, tell_, fixed) ==
    IF ~ReadOk(words, tell_, HeaderSize) THEN FixResult(tell_, <<>>, fixed, "ModReadError")
    ELSE LET h == HeaderAt(words, tell_)
             t1 == tell_ + HeaderSize
         IN  IF h.tag = "GRUP"
             THEN IF h.groupType # 0 \/ h.label \in TrackedTops
                  THEN FixResult(t1, <<h>>, fixed, "")
                  ELSE IF ReadOk(words, t1, h.size - HeaderSize)
                  THEN FixResult(tell_ + h.size,
                                 <<h>> \o SubSeq(words, t1 + 1, tell_ + h.size), fixed, "")
                  ELSE FixResult(t1, <<h>>, fixed, "ModReadError")
             ELSE IF h.tag = "CELL"
             THEN FixCell(words, t1, t1 + h.size, <<h>>, fixed, h.fid)
             ELSE IF ReadOk(words, t1, h.size)
             THEN FixResult(t1 + h.size,
                            <<h>> \o SubSeq(words, t1 + 1, t1 + h.size), fixed, "")
             ELSE FixResult(t1, <<h>>, fixed, "ModReadError")

\* the whole loop, uninterrupted: the words written and the cells fixed
RECURSIVE RunFix(_, _, _, _)
RunFix(words, tell_, written, fixed) ==
    IF AtEnd(words, tell_) THEN FixResult(tell_, written, fixed, "")
    ELSE LET r == FixIter(words, tell_, fixed)
         IN  IF r.err # "" THEN FixResult(r.tell, written \o r.written, r.fixed, r.err)
             ELSE RunFix(words, r.tell, written \o r.written, r.fixed)

\* the content of the plugin path after a call of fix_fog that returns or
\* raises, given the content before it
AfterFix(words) ==
    LET r == RunFix(words, 0, <<>>, {})
    IN  IF r.err = "" /\ r.fixed # {} THEN r.written ELSE words

RECURSIVE AfterFixes(_, _)
AfterFixes(words, n) == IF n = 0 THEN words ELSE AfterFixes(AfterFix(words), n - 1)

FixFiles ==
    RichFiles \cup BrokenFiles \cup TrailingFiles \cup MasterlessFiles
    \cup { Unreadable(PluginFile(<<DirtyInt>>)) }

InitFix ==
    /\ modInfos \in { <<f>> : f \in FixFiles }
    /\ pc = "fix_start"
    /\ what = 0
    /\ detailed = FALSE
    /\ i = 0
    /\ ret = <<>>
    /\ tell = 0
    /\ udr = EmptyDict
    /\ fog = {}
    /\ parents_to_scan = {}
    /\ parentType = None
    /\ parentFid = None
    /\ parentParentFid = None
    /\ pos = NoPos
    /\ exc = ""
    /\ reported = NoReport
    /\ group_records = EmptyDict
    /\ records = ""
    /\ disk = [plugin |-> File(modInfos[1].words), temp |-> Missing, backup |-> Missing]
    /\ fixedCells = {}
    /\ runs = 0
    /\ settings = NoObject
    /\ pickle = NoObject
    /\ oset = NoObject

\* the content of the file at the plugin path
PluginWords == disk.plugin[1]

\* lines 547-555: fixedCells.clear(), then the plugin is opened for reading
\* and the temp file for writing
FixEnter ==
    /\ pc = "fix_start"
    /\ fixedCells' = {}
    /\ tell' = 0
    /\ IF modInfo.readable
       THEN /\ pc' = "fix_walk"
            /\ disk' = [disk EXCEPT !.temp = File(<<>>)]
            /\ exc' = exc
       ELSE /\ pc' = "raised"
            /\ exc' = "IOError"
            /\ disk' = disk
    /\ UNCHANGED <<modInfos, scanVars, libVars, group_records, records, runs>>

\* a fixer that makes the temp file the plugin when the walk is aborted
FixStep_commit ==
    /\ pc = "fix_walk"
    /\ ~AtEnd(PluginWords, tell)
    /\ \E cancel \in BOOLEAN :
         IF cancel
         THEN /\ pc' = "raised"
              /\ exc' = "CancelError"
              /\ disk' = [disk EXCEPT !.plugin = disk.temp, !.temp = Missing]
              /\ UNCHANGED <<tell, fixedCells>>
         ELSE LET r == FixIter(PluginWords, tell, fixedCells)
              IN  /\ tell' = r.tell
                  /\ fixedCells' = r.fixed
                  /\ IF r.err # ""
                     THEN /\ pc' = "raised"
                          /\ exc' = r.err
                          /\ disk' = [disk EXCEPT !.plugin = File(disk.temp[1] \o r.written),
                                                  !.temp = Missing]
                     ELSE /\ pc' = pc
                          /\ exc' = exc
                          /\ disk' = [disk EXCEPT !.temp = File(@[1] \o r.written)]
    /\ UNCHANGED <<modInfos, scanVars, libVars, group_records, records, runs>>

\* lines 563-591: one iteration; the progress callback may raise, and no
\* exception is caught, so what was written stays in the temp file
FixStep ==
    /\ pc = "fix_walk"
    /\ ~AtEnd(PluginWords, tell)
    /\ \E cancel \in BOOLEAN :
         IF cancel
         THEN /\ pc' = "raised"
              /\ exc' = "CancelError"
              /\ UNCHANGED <<tell, disk, fixedCells>>
         ELSE LET r == FixIter(PluginWords, tell, fixedCells)
              IN  /\ tell' = r.tell
                  /\ disk' = [disk EXCEPT !.temp = File(@[1] \o r.written)]
                  /\ fixedCells' = r.fixed
                  /\ IF r.err # "" THEN pc' = "raised" /\ exc' = r.err
                     ELSE pc' = pc /\ exc' = exc
    /\ UNCHANGED <<modInfos, scanVars, libVars, group_records, records, runs>>

\* lines 593-594: cells were fixed; modInfo.makeBackup() copies the plugin
FixBackup ==
    /\ pc = "fix_walk"
    /\ AtEnd(PluginWords, tell)
    /\ fixedCells # {}
    /\ disk' = [disk EXCEPT !.backup = disk.plugin]
    /\ pc' = "fix_untemp"
    /\ UNCHANGED <<modInfos, scanVars, libVars, tell, exc, group_records, records,
                   fixedCells, runs>>

\* Path.untemp, first half: the temp file and the plugin exist and no backup
\* is asked of untemp, so os.remove deletes the plugin
UntempRemove ==
    /\ pc = "fix_untemp"
    /\ disk.temp # Missing
    /\ disk.plugin # Missing
    /\ disk' = [disk EXCEPT !.plugin = Missing]
    /\ pc' = "fix_move"
    /\ UNCHANGED <<modInfos, scanVars, libVars, tell, exc, group_records, records,
                   fixedCells, runs>>

\* Path.untemp, second half: shutil.move puts the temp file at the plugin
\* path; then line 596 and fix_fog returns
UntempMove ==
    /\ pc = "fix_move"
    /\ disk' = [disk EXCEPT !.plugin = disk.temp, !.temp = Missing]
    /\ pc' = "fix_returned"
    /\ runs' = runs + 1
    /\ UNCHANGED <<modInfos, scanVars, libVars, tell, exc, group_records, records, fixedCells>>

\* a fixer that leaves the temp file where it is
FixDiscard_keepTemp ==
    /\ pc = "fix_walk"
    /\ AtEnd(PluginWords, tell)
    /\ fixedCells = {}
    /\ disk' = disk
    /\ pc' = "fix_returned"
    /\ runs' = runs + 1
    /\ UNCHANGED <<modInfos, scanVars, libVars, tell, exc, group_records, records, fixedCells>>

\* lines 597-598: nothing was fixed; path.temp.remove() and fix_fog returns
FixDiscard ==
    /\ pc = "fix_walk"
    /\ AtEnd(PluginWords, tell)
    /\ fixedCells = {}
    /\ disk' = [disk EXCEPT !.temp = Missing]
    /\ pc' = "fix_returned"
    /\ runs' = runs + 1
    /\ UNCHANGED <<modInfos, scanVars, libVars, tell, exc, group_records, records, fixedCells>>

\* fix_fog is called again on the same file
FixAgain ==
    /\ pc = "fix_returned"
    /\ runs < MaxRuns
    /\ pc' = "fix_start"
    /\ UNCHANGED <<modInfos, scanVars, libVars, tell, exc, group_records, records, disk,
                   fixedCells, runs>>

NextFix ==
    \/ FixEnter
    \/ FixStep
    \/ FixBackup
    \/ UntempRemove
    \/ UntempMove
    \/ FixDiscard
    \/ FixAgain

SpecFix == InitFix /\ [][NextFix]_vars

\* ------------------------------------------------------ bolt.Settings
\* the variables of the plugin operations
pluginVars == <<modInfos, pc, tell, exc, scanVars, group_records, records, disk,
                fixedCells, runs>>

SettingKeys == {"a", "b"}
\* the values a setting is given; None is Python's None
SettingValues == {None, 1, 2}
Dicts(K, V) == UNION { [D -> V] : D \in SUBSET K }
DictGet(d, k, default) == IF k \in DOMAIN d THEN d[k] ELSE default
Restrict(d, K) == [x \in (DOMAIN d) \cap K |-> d[x]]

\* Settings.__init__ on a dictFile whose load read the dictionary stored;
\* cleanSave when the load read no data
NewSettings(stored, cleanSave) ==
    [data |-> stored, defaults |-> EmptyDict, changed |-> {}, deleted |-> {},
     cleanSave |-> cleanSave, dfdata |-> stored, stored |-> stored,
     before |-> stored, err |-> "", ops |-> 0, last |-> "init"]

InitSettings ==
    /\ settings \in
         { NewSettings(d, FALSE) : d \in Dicts(SettingKeys, {1, 2}) }
         \cup { NewSettings(EmptyDict, TRUE) }
    /\ modInfos = <<>>
    /\ pc = "settings"
    /\ what = 0
    /\ detailed = FALSE
    /\ i = 0
    /\ ret = <<>>
    /\ tell = 0
    /\ udr = EmptyDict
    /\ fog = {}
    /\ parents_to_scan = {}
    /\ parentType = None
    /\ parentFid = None
    /\ parentParentFid = None
    /\ pos = NoPos
    /\ exc = ""
    /\ reported = NoReport
    /\ group_records = EmptyDict
    /\ records = ""
    /\ disk = NoDisk
    /\ fixedCells = {}
    /\ runs = 0
    /\ pickle = NoObject
    /\ oset = NoObject

\* one more operation, named op, has left the object as S
Did(S, op, err) == [S EXCEPT !.ops = settings.ops + 1, !.last = op, !.err = err]

\* Settings.loadDefaults, called once after the construction
LoadDefaults ==
    /\ settings.last = "init"
    /\ \E defaults \in Dicts(SettingKeys, {None, 1}) :
         settings' =
            [settings EXCEPT
               !.defaults = defaults,
               !.data = [k \in (DOMAIN settings.data) \cup (DOMAIN defaults) |->
                           IF k \in DOMAIN settings.data THEN settings.data[k]
                           ELSE defaults[k]],
               !.last = "loadDefaults"]
    /\ UNCHANGED <<pluginVars, pickle, oset>>

\* Settings.__setitem__
SetItem ==
    /\ settings.ops < MaxSettingOps
    /\ \E k \in SettingKeys, v \in SettingValues :
         settings' = Did([settings EXCEPT !.deleted = @ \ {k},
                                          !.changed = @ \cup {k},
                                          !.data = DictSet(@, k, v)],
                         "setitem", "")
    /\ UNCHANGED <<pluginVars, pickle, oset>>

\* Settings.__delitem__: the sets are updated before del raises
DelItem ==
    /\ settings.ops < MaxSettingOps
    /\ \E k \in SettingKeys :
         settings' = Did([settings EXCEPT !.changed = @ \ {k},
                                          !.deleted = @ \cup {k},
                                          !.data = DictDel(@, k)],
                         "delitem",
                         IF k \in DOMAIN settings.data THEN "" ELSE "KeyError")
    /\ UNCHANGED <<pluginVars, pickle, oset>>

\* Settings.setdefault
SetDefault ==
    /\ settings.ops < MaxSettingOps
    /\ \E k \in SettingKeys, v \in SettingValues :
         settings' = IF k \in DOMAIN settings.data
                     THEN Did(settings, "setdefault", "")
                     ELSE Did([settings EXCEPT !.deleted = @ \ {k},
                                               !.data = DictSet(@, k, v)],
                              "setdefault", "")
    /\ UNCHANGED <<pluginVars, pickle, oset>>

\* Settings.pop
Pop ==
    /\ settings.ops < MaxSettingOps
    /\ \E k \in SettingKeys :
         settings' = Did([settings EXCEPT !.changed = @ \ {k},
                                          !.deleted = @ \cup {k},
                                          !.data = DictDel(@, k)],
                         "pop", "")
    /\ UNCHANGED <<pluginVars, pickle, oset>>

\* Settings.setChanged
SetChanged ==
    /\ settings.ops < MaxSettingOps
    /\ \E k \in SettingKeys :
         settings' = IF k \notin DOMAIN settings.data
                     THEN Did(settings, "setChanged", "ArgumentError")
                     ELSE Did([settings EXCEPT !.changed = @ \cup {k}], "setChanged", "")
    /\ UNCHANGED <<pluginVars, pickle, oset>>

\* Settings.getChanged
GetChanged ==
    /\ settings.ops < MaxSettingOps
    /\ \E k \in SettingKeys, default \in SettingValues :
         LET S1 == IF default # None /\ k \notin DOMAIN settings.data
                   THEN [settings EXCEPT !.data = DictSet(@, k, default)]
                   ELSE settings
         IN  settings' = IF k \notin DOMAIN S1.data
                         THEN Did(S1, "getChanged", "ArgumentError")
                         ELSE Did([S1 EXCEPT !.changed = @ \cup {k}], "getChanged", "")
    /\ UNCHANGED <<pluginVars, pickle, oset>>

\* Settings.save: the dictionary the dictFile holds and writes
SettingsSaved(S) ==
    LET loaded == IF S.cleanSave THEN S.dfdata ELSE S.stored
        kept == Restrict(loaded, (DOMAIN loaded) \ S.deleted)
        same == { k \in S.changed : S.data[k] = DictGet(S.defaults, k, None) }
    IN  [ k \in ((DOMAIN kept) \ same) \cup (S.changed \ same) |->
            IF k \in S.changed THEN S.data[k] ELSE kept[k] ]

\* Settings.save on a dictFile that is not read-only
Save ==
    /\ settings.last # "save"
    /\ settings' = [settings EXCEPT !.dfdata = SettingsSaved(settings),
                                    !.stored = SettingsSaved(settings),
                                    !.before = settings.stored,
                                    !.err = "",
                                    !.last = "save"]
    /\ UNCHANGED <<pluginVars, pickle, oset>>

NextSettings ==
    \/ LoadDefaults
    \/ SetItem
    \/ DelItem
    \/ SetDefault
    \/ Pop
    \/ SetChanged
    \/ GetChanged
    \/ Save

SpecSettings == InitSettings /\ [][NextSettings]_vars

\* ---------------------------------------------------- bolt.PickleDict
\* a pickle file: whether it exists, what the first cPickle.load of it
\* gives ("VDATA2", another header, or the exception it raises), and for
\* the second and the third load the exception raised, if any, or else the
\* dictionary read
PickleFile(exists, first, verr, vdata, derr, data) ==
    [exists |-> exists, first |-> first, verr |-> verr, vdata |-> vdata,
     derr |-> derr, data |-> data]

NoPickle == PickleFile(FALSE, "", "", EmptyDict, "", EmptyDict)
GoodPickle(vdata, data) == PickleFile(TRUE, "VDATA2", "", vdata, "", data)

\* the exceptions cPickle.load raises on damaged data
PickleErrors == {"ValueError", "EOFError", "UnpicklingError"}

VdataDicts == { EmptyDict, DictSet(EmptyDict, "boltPaths", TRUE) }
DataDicts == { EmptyDict, DictSet(EmptyDict, "a", 1), DictSet(EmptyDict, "b", 2) }

PickleFiles ==
    { NoPickle }
    \cup { GoodPickle(v, d) : v \in VdataDicts, d \in DataDicts }
    \cup { PickleFile(TRUE, e, "", EmptyDict, "", EmptyDict) : e \in PickleErrors \cup {"old"} }
    \cup { PickleFile(TRUE, "VDATA2", e, EmptyDict, "", EmptyDict) : e \in {"EOFError"} }
    \cup { PickleFile(TRUE, "VDATA2", "", DictSet(EmptyDict, "stale", TRUE), e, EmptyDict) :
             e \in {"EOFError", "UnpicklingError"} }

\* dict.update
DictUpdate(d, e) ==
    [k \in (DOMAIN d) \cup (DOMAIN e) |-> IF k \in DOMAIN e THEN e[k] ELSE d[k]]

\* lines 495-515: the body of the loop of load for one existing file, given
\* the vdata so far: the value returned (None when the loop goes on), the
\* exception that leaves load, the vdata and data left, and whether the
\* file is to be moved aside
LoadOne(f, vdata, n) ==
    IF f.first = "ValueError"
    THEN [ret |-> None, exc |-> "", vdata |-> vdata, data |-> EmptyDict, cor |-> TRUE]
    ELSE IF f.first = "EOFError"
    THEN [ret |-> None, exc |-> "", vdata |-> vdata, data |-> EmptyDict, cor |-> FALSE]
    ELSE IF f.first \in PickleErrors
    THEN [ret |-> None, exc |-> f.first, vdata |-> vdata, data |-> EmptyDict, cor |-> FALSE]
    ELSE IF f.first # "VDATA2"
    THEN [ret |-> None, exc |-> "Mold", vdata |-> vdata, data |-> EmptyDict, cor |-> FALSE]
    ELSE IF f.verr \in {"EOFError", "ValueError"}
    THEN [ret |-> None, exc |-> "", vdata |-> vdata, data |-> EmptyDict, cor |-> FALSE]
    ELSE IF f.verr # ""
    THEN [ret |-> None, exc |-> f.verr, vdata |-> vdata, data |-> EmptyDict, cor |-> FALSE]
    ELSE IF f.derr \in {"EOFError", "ValueError"}
    THEN [ret |-> None, exc |-> "", vdata |-> DictUpdate(vdata, f.vdata),
          data |-> EmptyDict, cor |-> FALSE]
    ELSE IF f.derr # ""
    THEN [ret |-> None, exc |-> f.derr, vdata |-> DictUpdate(vdata, f.vdata),
          data |-> EmptyDict, cor |-> FALSE]
    ELSE [ret |-> n, exc |-> "", vdata |-> DictUpdate(vdata, f.vdata),
          data |-> f.data, cor |-> FALSE]

\* PickleDict.load: both dictionaries are cleared, then the primary and the
\* backup are tried in this order
PickleLoad(P) ==
    LET one == IF P.primary.exists THEN LoadOne(P.primary, EmptyDict, 1)
               ELSE [ret |-> None, exc |-> "", vdata |-> EmptyDict, data |-> EmptyDict,
                     cor |-> FALSE]
        moved == IF one.cor THEN NoPickle ELSE P.primary
        two == IF P.backup.exists THEN LoadOne(P.backup, one.vdata, 2)
               ELSE [ret |-> None, exc |-> "", vdata |-> one.vdata, data |-> EmptyDict,
                     cor |-> FALSE]
    IN  IF one.ret # None \/ one.exc # ""
        THEN [P EXCEPT !.vdata = one.vdata, !.data = one.data,
                       !.ret = one.ret, !.exc = one.exc]
        ELSE [P EXCEPT !.primary = moved, !.vdata = two.vdata, !.data = two.data,
                       !.ret = IF two.ret # None \/ two.exc # "" THEN two.ret ELSE 0,
                       !.exc = two.exc]

\* PickleDict.__init__
NewPickle(primary, backup) ==
    [primary |-> primary, backup |-> backup, vdata |-> EmptyDict, data |-> EmptyDict,
     ret |-> None, exc |-> "", before |-> <<primary, backup>>, ops |-> 0,
     last |-> "init"]

InitPickle ==
    /\ pickle \in { NewPickle(f, b) : f \in PickleFiles, b \in PickleFiles }
    /\ modInfos = <<>>
    /\ pc = "pickle"
    /\ what = 0
    /\ detailed = FALSE
    /\ i = 0
    /\ ret = <<>>
    /\ tell = 0
    /\ udr = EmptyDict
    /\ fog = {}
    /\ parents_to_scan = {}
    /\ parentType = None
    /\ parentFid = None
    /\ parentParentFid = None
    /\ pos = NoPos
    /\ exc = ""
    /\ reported = NoReport
    /\ group_records = EmptyDict
    /\ records = ""
    /\ disk = NoDisk
    /\ fixedCells = {}
    /\ runs = 0
    /\ settings = NoObject
    /\ oset = NoObject

\* PickleDict.load
Load ==
    /\ pickle.ops < MaxPickleOps
    /\ pickle' = [PickleLoad(pickle) EXCEPT !.before = <<pickle.primary, pickle.backup>>,
                                           !.ops = pickle.ops + 1,
                                           !.last = "load"]
    /\ UNCHANGED <<pluginVars, settings, oset>>

\* a client puts an entry into data, which is a public attribute
PickleUpdate ==
    /\ pickle.ops < MaxPickleOps
    /\ \E d \in DataDicts \ {EmptyDict} :
         pickle' = [pickle EXCEPT !.data = DictUpdate(@, d),
                                  !.ops = pickle.ops + 1,
                                  !.last = "update"]
    /\ UNCHANGED <<pluginVars, settings, oset>>

\* PickleDict.save of a dictionary that is not read-only: the three objects
\* are written to the temp file, then Path.untemp(doBackup=True) moves the
\* primary, if there is one, to the backup and the temp file to the primary
PickleSave ==
    /\ pickle.ops < MaxPickleOps
    /\ LET vdata == DictSet(pickle.vdata, "boltPaths", TRUE)
       IN  pickle' = [pickle EXCEPT
                        !.vdata = vdata,
                        !.backup = IF pickle.primary.exists THEN pickle.primary ELSE @,
                        !.primary = GoodPickle(vdata, pickle.data),
                        !.ops = pickle.ops + 1,
                        !.last = "save"]
    /\ UNCHANGED <<pluginVars, settings, oset>>

NextPickle ==
    \/ Load
    \/ PickleUpdate
    \/ PickleSave

SpecPickle == InitPickle /\ [][NextPickle]_vars

\* ---------------------------------------------------- bolt OrderedSet
\* OrderedSet(list, MutableSet): the items are the list itself, and a method
\* both bases have is that of list
Elems == {1, 2, 3}

Contains(l, e) == \E n \in 1..Len(l) : l[n] = e
\* list.index: the first index of e, from 0
IndexOf(l, e) == (CHOOSE n \in 1..Len(l) : l[n] = e /\ \A m \in 1..(n - 1) : l[m] # e) - 1
RemoveAt(l, n) == SubSeq(l, 1, n) \o SubSeq(l, n + 2, Len(l))

\* list.pop(*args): it takes at most one argument, the index
ListPop(l, args) ==
    IF Len(args) > 1 THEN [items |-> l, exc |-> "TypeError"]
    ELSE IF l = <<>> THEN [items |-> l, exc |-> "IndexError"]
    ELSE [items |-> RemoveAt(l, IF args = <<>> THEN Len(l) - 1 ELSE args[1]), exc |-> ""]

\* OrderedSet.add
SetAdd(l, e) == IF ~Contains(l, e) THEN Append(l, e) ELSE l

\* OrderedSet.discard: self.pop(self.index(elem), None)
SetDiscard(l, e) ==
    IF ~Contains(l, e) THEN [items |-> l, exc |-> "ValueError"]
    ELSE ListPop(l, <<IndexOf(l, e), None>>)

\* OrderedSet.update with one iterable
RECURSIVE SetUpdate(_, _)
SetUpdate(l, es) == IF es = <<>> THEN l ELSE SetUpdate(SetAdd(l, Head(es)), Tail(es))

\* the object after the operation op with argument arg
Called(items, exc_, op, arg) ==
    [items |-> items, exc |-> exc_, last |-> op, arg |-> arg,
     before |-> oset.items, prev |-> oset.last, prevArg |-> oset.arg,
     prevBefore |-> oset.before, ops |-> oset.ops + 1]

InitOrderedSet ==
    /\ oset = [items |-> <<>>, exc |-> "", last |-> "init", arg |-> None,
               before |-> <<>>, prev |-> "", prevArg |-> None, prevBefore |-> <<>>,
               ops |-> 0]
    /\ modInfos = <<>>
    /\ pc = "oset"
    /\ what = 0
    /\ detailed = FALSE
    /\ i = 0
    /\ ret = <<>>
    /\ tell = 0
    /\ udr = EmptyDict
    /\ fog = {}
    /\ parents_to_scan = {}
    /\ parentType = None
    /\ parentFid = None
    /\ parentParentFid = None
    /\ pos = NoPos
    /\ exc = ""
    /\ reported = NoReport
    /\ group_records = EmptyDict
    /\ records = ""
    /\ disk = NoDisk
    /\ fixedCells = {}
    /\ runs = 0
    /\ settings = NoObject
    /\ pickle = NoObject

Add ==
    /\ oset.ops < MaxSetOps
    /\ \E e \in Elems : oset' = Called(SetAdd(oset.items, e), "", "add", e)
    /\ UNCHANGED <<pluginVars, settings, pickle>>

Discard ==
    /\ oset.ops < MaxSetOps
    /\ \E e \in Elems :
         LET r == SetDiscard(oset.items, e)
         IN  oset' = Called(r.items, r.exc, "discard", e)
    /\ UNCHANGED <<pluginVars, settings, pickle>>

Update ==
    /\ oset.ops < MaxSetOps
    /\ \E a \in Elems, b \in Elems :
         oset' = Called(SetUpdate(oset.items, <<a, b>>), "", "update", None)
    /\ UNCHANGED <<pluginVars, settings, pickle>>

NextOrderedSet ==
    \/ Add
    \/ Discard
    \/ Update

SpecOrderedSet == InitOrderedSet /\ [][NextOrderedSet]_vars

\* ------------------------------------------------- what a file contains
\* the declared sizes of [from, to) are consistent: groups nest, records and
\* subrecords fill their declared extents exactly, compressed bodies inflate
\* to their declared size
RECURSIVE WellFormedSpan(_, _, _)
WellFormedSpan(words, from, to) ==
    IF from = to THEN TRUE
    ELSE /\ from + HeaderSize <= to
         /\ LET h == words[from + 1]
                body == from + HeaderSize
            IN  IF h.tag = "GRUP"
                THEN /\ h.size >= HeaderSize
                     /\ from + h.size <= to
                     /\ WellFormedSpan(words, body, from + h.size)
                     /\ WellFormedSpan(words, from + h.size, to)
                ELSE /\ body + h.size <= to
                     /\ ~RecordSubrecords(words, h, body).err
                     /\ WellFormedSpan(words, body + h.size, to)

WellFormed(f) == WellFormedSpan(f.words, 0, Len(f.words))

\* the leaf records of [from, to), each with its offset, its header and the
\* headers of the groups that enclose it, outermost first; a group that
\* declares more than the file holds ends with the file
RECURSIVE Leaves(_, _, _, _)
Leaves(words, from, to, enc) ==
    IF from >= to THEN {}
    ELSE LET h == words[from + 1]
             body == from + HeaderSize
         IN  IF h.tag = "GRUP"
             THEN Leaves(words, body, IF from + h.size < to THEN from + h.size ELSE to,
                         Append(enc, h))
                  \cup Leaves(words, from + h.size, to, enc)
             ELSE {[at |-> from, header |-> h, enc |-> enc]}
                  \cup Leaves(words, body + h.size, to, enc)

LeavesOf(f) == Leaves(f.words, 0, Len(f.words), <<>>)

\* the record lies in a top-level group the scan skips as a block
InSkippedTop(leaf) ==
    /\ leaf.enc # <<>>
    /\ leaf.enc[1].groupType = 0
    /\ leaf.enc[1].label \notin TrackedTops

Populated(r) == r # Undetermined
UdrOf(r) == r[1][1]
ItmOf(r) == r[2][1]
FogOf(r) == r[3][1]
HasMasters(f) == Len(f.masterNames) > 0

\* every fid a word of the file carries
FileFids(f) == { f.words[p].fid : p \in 1..Len(f.words) } \ {0}

\* -------------------------------------------------------------- C1
\* the findings of a result are records of the given file
Belongs(r, f) ==
    \/ ~Populated(r)
    \/ /\ { u.fid : u \in UdrOf(r) } \subseteq FileFids(f)
       /\ FogOf(r) \subseteq FileFids(f)
       /\ (~HasMasters(f) => r = EmptyResult)

\* C1: unless the progress callback cancels, scan_Many returns; and when it
\* returns, it returns exactly one result per input file, result j holding
\* findings of input file j only (input order); for an empty batch it
\* returns the empty list.  While the batch runs, the results of the files
\* already scanned are those of the first i files, in order.
C1_OneResultPerFile ==
    /\ pc = "raised" => exc = "CancelError"
    /\ pc = "done" => Len(ret) = N
    /\ pc \in {"file", "pass1", "pass2"} => Len(ret) = i
    /\ pc # "start" => \A j \in 1..Len(ret) : Belongs(ret[j], modInfos[j])
    /\ (pc = "done" /\ N = 0) => ret = <<>>

\* -------------------------------------------------------------- C2
Without(q, k) == [j \in 1..(Len(q) - 1) |-> IF j < k THEN q[j] ELSE q[j + 1]]

\* C2: when scan_Many returns for a batch in which the scan of file k ended in
\* a decode error, there are N results, result k is the undetermined triple,
\* and the other results are those scan_Many returns for the batch without
\* file k.
C2_CorruptionIsolation ==
    pc = "done" =>
        /\ Len(ret) = N
        /\ \A k \in 1..N :
             ~Populated(ret[k]) =>
                Without(ret, k) = ScanManyResult(Without(modInfos, k), what, detailed)

\* -------------------------------------------------------------- C3
\* the progress callback is about to be called: a file starts, or a record
\* of the open file is about to be read
AtBoundary ==
    \/ pc = "file" /\ i < N
    \/ pc \in {"pass1", "pass2"} /\ ~AtEnd(modInfo.words, tell)

CancelNow == Next /\ exc' = "CancelError"

\* C3: the callback can raise CancelError at every file boundary and at every
\* record boundary; when it does, scan_Many ends with that exception: no
\* result is appended for the file (so no undetermined triple stands for the
\* cancellation), no later file is started, and nothing runs afterwards.
C3_Cancellation ==
    /\ [](AtBoundary => ENABLED CancelNow)
    /\ [](exc = "CancelError" => pc = "raised" /\ ~ENABLED Next)
    /\ [][exc' = "CancelError" => pc' = "raised" /\ ret' = ret /\ i' = i]_vars

\* the callback has cancelled in the middle of the second file of a batch,
\* after the first file's result was appended
C3_Witness ==
    /\ pc = "raised"
    /\ exc = "CancelError"
    /\ N = 2
    /\ i = 1
    /\ Len(ret) = 1
    /\ tell > 0

\* -------------------------------------------------------------- C4
\* the subrecords of a leaf record of a well-formed file
SubrecordsOf(f, leaf) ==
    RecordSubrecords(f.words, leaf.header, leaf.at + HeaderSize).subrecords

SubData(f, leaf, subType) ==
    LET subs == SubrecordsOf(f, leaf)
    IN  { subs[n].data : n \in { m \in 1..Len(subs) : subs[m].subType = subType } }

\* the placed records of allow-listed type outside the skipped top groups
PlacedRecords(f) ==
    { leaf \in LeavesOf(f) : leaf.header.tag \in UdrTypes /\ ~InSkippedTop(leaf) }

IsDeleted(leaf) == HasBit(leaf.header.flags1, DeletedFlag)

\* C4: when UDR detection is requested, the result of a well-formed file with
\* a master holds a finding with the fid of every allow-listed leaf record
\* whose deleted flag is set, inside or outside a cell group, and none for
\* such a record whose flag is unset.
C4_UdrClassification ==
    \A j \in 1..Len(ret) :
        (HasBit(what, UDR) /\ HasMasters(modInfos[j]) /\ WellFormed(modInfos[j])) =>
            \A leaf \in PlacedRecords(modInfos[j]) :
                IF IsDeleted(leaf)
                THEN /\ Populated(ret[j])
                     /\ \E u \in UdrOf(ret[j]) : u.fid = leaf.header.fid
                ELSE Populated(ret[j]) =>
                        \A u \in UdrOf(ret[j]) : u.fid # leaf.header.fid

\* -------------------------------------------------------------- C5
AllZero(val) == val[1] = 0 /\ val[2] = 0 /\ val[3] = 0

\* the CELL records with a lighting subrecord whose near, far, clip are zero
DefectCells(f) ==
    { leaf.header.fid :
        leaf \in { l \in LeavesOf(f) :
                     /\ l.header.tag = "CELL"
                     /\ ~InSkippedTop(l)
                     /\ \E d \in SubData(f, l, "XCLL") : AllZero(d) } }

DeletedRefs(f) == { leaf \in PlacedRecords(f) : IsDeleted(leaf) }

\* C5: when FOG detection is requested, the fog set of a well-formed file with
\* a master is exactly the set of fids of its CELL records that have a
\* lighting subrecord with near, far and clip all zero; and a well-formed
\* file with no such record and no deleted reference yields three empty sets.
C5_FogClassification ==
    \A j \in 1..Len(ret) :
        WellFormed(modInfos[j]) =>
            /\ (HasBit(what, FOG) /\ HasMasters(modInfos[j])) =>
                  /\ Populated(ret[j])
                  /\ FogOf(ret[j]) = DefectCells(modInfos[j])
            /\ (DefectCells(modInfos[j]) = {} /\ DeletedRefs(modInfos[j]) = {}) =>
                  ret[j] = EmptyResult

\* -------------------------------------------------------------- C6
\* the mask with the ITM bit flipped
ToggleItm(m) == IF HasBit(m, ITM) THEN m - ITM ELSE m + ITM

\* C6: the mask values are UDR=1, ITM=2, FOG=4, ALL=UDR|ITM|FOG and
\* DEFAULT=UDR|ITM; the ITM component of every populated result is the empty
\* set; and the UDR and FOG components of every result are those the scan
\* returns for the same batch with the ITM bit of the mask flipped.
C6_ItmIsNoOp ==
    /\ UDR = 1 /\ ITM = 2 /\ FOG = 4 /\ ALL = 7 /\ DEFAULT = 3
    /\ \A j \in 1..Len(ret) : Populated(ret[j]) => ItmOf(ret[j]) = {}
    /\ pc = "done" =>
          LET other == ScanManyResult(modInfos, ToggleItm(what), detailed)
          IN  \A j \in 1..N : ret[j][1] = other[j][1] /\ ret[j][3] = other[j][3]

\* a scan with all three bits set has returned a result with both kinds of
\* finding
C6_Witness ==
    /\ pc = "done"
    /\ what = ALL
    /\ \E j \in 1..N :
         Populated(ret[j]) /\ UdrOf(ret[j]) # {} /\ FogOf(ret[j]) # {}

\* -------------------------------------------------------------- C7
\* a pass-1 iteration that neither failed nor was cancelled
Pass1Stays == pc = "pass1" /\ pc' = "pass1" /\ i' = i

\* C7: in a detailed scan, reading the header of a type-1 group sets the
\* current world to its label, clears the current cell and marks the context
\* exterior; a type-2 group clears world and cell and marks it interior; a
\* group of type 6, 8, 9 or 10 sets the current cell to its label and keeps
\* world and marking; and the finding recorded for a deleted reference
\* carries the cell, world and marking of the context in which its header is
\* read, and keeps them for the rest of the file's scan.
C7_GroupEntry ==
    /\ [][(Pass1Stays /\ detailed) =>
            LET h == HeaderAt(modInfo.words, tell)
            IN  /\ (h.tag = "GRUP" /\ h.groupType = 1) =>
                      /\ parentParentFid' = h.fid
                      /\ parentFid' = None
                      /\ parentType' = 1
                /\ (h.tag = "GRUP" /\ h.groupType = 2) =>
                      /\ parentParentFid' = None
                      /\ parentFid' = None
                      /\ parentType' = 0
                /\ (h.tag = "GRUP" /\ h.groupType \in CellGroupTypes) =>
                      /\ parentFid' = h.fid
                      /\ parentType' = parentType
                      /\ parentParentFid' = parentParentFid
                /\ (h.tag # "GRUP" /\ HasBit(what, UDR) /\ HasBit(h.flags1, DeletedFlag)
                    /\ h.tag \in UdrTypes) =>
                      /\ h.fid \in DOMAIN udr'
                      /\ udr'[h.fid].parentFid = parentFid
                      /\ udr'[h.fid].parentType = parentType
                      /\ udr'[h.fid].parentParentFid = parentParentFid]_vars
    /\ [][(pc \in {"pass1", "pass2"} /\ pc' \in {"pass1", "pass2"} /\ i' = i) =>
            \A f \in DOMAIN udr :
                /\ f \in DOMAIN udr'
                /\ udr'[f].parentFid = udr[f].parentFid
                /\ udr'[f].parentType = udr[f].parentType
                /\ udr'[f].parentParentFid = udr[f].parentParentFid]_vars

\* a detailed scan holds one finding made in an interior cell and one made in
\* an exterior cell of a world
C7_Witness ==
    /\ pc = "pass1"
    /\ detailed
    /\ \E f, g \in DOMAIN udr :
         /\ udr[f].parentType = 0 /\ udr[f].parentFid # None
         /\ udr[f].parentParentFid = None
         /\ udr[g].parentType = 1 /\ udr[g].parentFid # None
         /\ udr[g].parentParentFid # None

\* -------------------------------------------------------------- C8
Context(cell, world, type) == [cell |-> cell, world |-> world, type |-> type]

\* the context after a group is entered from context c
Entered(c, g) ==
    IF g.groupType = 1 THEN Context(None, g.fid, 1)
    ELSE IF g.groupType = 2 THEN Context(None, None, 0)
    ELSE IF g.groupType \in CellGroupTypes THEN Context(g.fid, c.world, c.type)
    ELSE c

\* the context inside the groups enc, entered in turn from the file's start
RECURSIVE Nested(_, _)
Nested(c, enc) == IF enc = <<>> THEN c ELSE Nested(Entered(c, Head(enc)), Tail(enc))

EnclosingContext(leaf) == Nested(Context(None, None, None), leaf.enc)

\* C8: in a detailed scan of a well-formed file, the cell, world and marking
\* of every finding are those of the groups that enclose its record: the
\* context of a group that has ended is no longer in force.
C8_StackDiscipline ==
    (pc \in {"pass1", "pass2"} /\ detailed /\ WellFormed(modInfo)) =>
        \A leaf \in LeavesOf(modInfo) :
            leaf.header.fid \in DOMAIN udr =>
                Context(udr[leaf.header.fid].parentFid,
                        udr[leaf.header.fid].parentParentFid,
                        udr[leaf.header.fid].parentType) = EnclosingContext(leaf)

\* -------------------------------------------------------------- C9
RecordsWith(f, rtype, fid) ==
    { leaf \in LeavesOf(f) : leaf.header.tag = rtype /\ leaf.header.fid = fid }

\* the editor id a record carries, the empty one if it has no EDID
EidsOf(f, leaf) ==
    IF SubData(f, leaf, "EDID") = {} THEN {NoEid}
    ELSE { d[1] : d \in SubData(f, leaf, "EDID") }

\* the grid coordinates a CELL record carries
GridsOf(f, leaf) == { <<d[1], d[2]>> : d \in SubData(f, leaf, "XCLC") }

\* C9: after a detailed scan of a well-formed file, a finding whose parent is
\* an exterior cell has the editor id of the parent world's record, the
\* editor id of the parent CELL record, and a position, which is the grid
\* coordinate of the parent CELL record's XCLC subrecord; a finding whose
\* parent is an interior cell has no parent world fid and no parent world
\* editor id.
C9_DetailedResolution ==
    \A j \in 1..Len(ret) :
        (detailed /\ Populated(ret[j]) /\ WellFormed(modInfos[j])) =>
            \A u \in UdrOf(ret[j]) :
                /\ u.parentType = 1 =>
                      /\ \A c \in RecordsWith(modInfos[j], "CELL", u.parentFid) :
                            /\ u.parentEid \in EidsOf(modInfos[j], c)
                            /\ u.pos # NoPos
                            /\ u.pos \in GridsOf(modInfos[j], c)
                      /\ \A w \in RecordsWith(modInfos[j], "WRLD", u.parentParentFid) :
                            u.parentParentEid \in EidsOf(modInfos[j], w)
                /\ u.parentType = 0 =>
                      /\ u.parentParentFid = None
                      /\ u.parentParentEid = NoEid

\* -------------------------------------------------------------- C10
\* C10: the second loop runs only in a detailed scan that has recorded a
\* finding; it is entered from the end of the first loop, at the end of the
\* file, with the cursor back at offset 0 and the worklist and findings of
\* the first loop; at the end of the first loop a detailed scan with a
\* finding always goes on to the second loop and any other scan never does;
\* and within a loop the cursor only moves forward, so a scan that is not
\* detailed walks the file once.
C10_TwoPass ==
    /\ [](pc = "pass2" => detailed /\ DOMAIN udr # {} /\ parents_to_scan # {})
    /\ [][(pc # "pass2" /\ pc' = "pass2") =>
            /\ pc = "pass1"
            /\ AtEnd(modInfo.words, tell)
            /\ tell' = 0
            /\ i' = i
            /\ parents_to_scan' = parents_to_scan
            /\ udr' = udr]_vars
    /\ [][(pc = "pass1" /\ AtEnd(modInfo.words, tell)) =>
            (pc' = "pass2") = (detailed /\ DOMAIN udr # {})]_vars
    /\ [][(pc \in {"pass1", "pass2"} /\ pc' = pc /\ i' = i) => tell' > tell]_vars
    /\ [][(pc = "pass1" /\ pc' # "pass1") =>
            \/ pc' = "raised"
            \/ pc' = "pass2"
            \/ pc' = "file" /\ i' = i + 1]_vars

\* the second loop is under way, past the first record of the file
C10_Witness ==
    /\ pc = "pass2"
    /\ tell > 0
    /\ detailed

\* -------------------------------------------------------------- C11
\* C11: a file of the batch that cannot be opened does not end the call:
\* scan_Many raises no IOError, and when it returns there is one result per
\* file, the undetermined one for every file that could not be opened.
C11_IoErrorIsolation ==
    /\ exc # "IOError"
    /\ pc = "done" =>
          /\ Len(ret) = N
          /\ (HasBit(what, UDR) \/ HasBit(what, FOG)) =>
                \A k \in 1..N : OpenFails(modInfos[k]) => ret[k] = Undetermined

\* -------------------------------------------------------------- C12
\* the offset at which the top-level frames of a file end: the plugin header
\* record and the top-level groups, each taken at its declared size
RECURSIVE TopEnd(_, _)
TopEnd(words, from) ==
    IF from >= Len(words) THEN from
    ELSE LET h == words[from + 1]
         IN  IF h.tag = "GRUP" /\ from + h.size <= Len(words)
             THEN TopEnd(words, from + h.size)
             ELSE IF h.tag = "TES4" /\ from + HeaderSize + h.size <= Len(words)
             THEN TopEnd(words, from + HeaderSize + h.size)
             ELSE from

\* the file without what follows its last top-level group
Unpadded(f) == Truncated(f, TopEnd(f.words, 0))

\* a well-formed file followed by data that is not the start of a group
HasTrailing(f) ==
    LET e == TopEnd(f.words, 0)
    IN  /\ e < Len(f.words)
        /\ e > Len(Tes4)
        /\ f.words[e + 1].tag # "GRUP"
        /\ WellFormed(Unpadded(f))

\* C12: the result of a file with a master that has data after its last
\* top-level group is populated, and is the result scan_Many gives for the
\* same file without that data.
C12_TrailingData ==
    (pc = "done" /\ N = 1 /\ HasMasters(modInfos[1]) /\ HasTrailing(modInfos[1])) =>
        /\ Populated(ret[1])
        /\ ret = ScanManyResult(<<Unpadded(modInfos[1])>>, what, detailed)

\* -------------------------------------------------------------- C13
\* the first loop with FOG requested, started at offset from, walks a CELL
\* record whose subrecords take it past the record's declared end
RECURSIVE FogOverrun(_, _)
FogOverrun(words, from) ==
    IF ~ReadOk(words, from, HeaderSize) THEN FALSE
    ELSE LET h == words[from + 1]
             body == from + HeaderSize
         IN  IF h.tag = "GRUP"
             THEN IF h.groupType = 0 /\ h.label \notin TrackedTops
                  THEN ReadOk(words, body, h.size - HeaderSize)
                       /\ FogOverrun(words, from + h.size)
                  ELSE FogOverrun(words, body)
             ELSE IF h.tag = "CELL"
             THEN LET w == FogWalk(words, body, body + h.size, {}, h.fid)
                  IN  /\ ~w.err
                      /\ \/ w.tell > body + h.size
                         \/ FogOverrun(words, w.tell)
             ELSE ReadOk(words, body, h.size) /\ FogOverrun(words, body + h.size)

\* C13: when FOG is requested and the subrecords of a CELL record of a file
\* with a master run past the record's declared size, the file's result is
\* the undetermined one.
C13_OverrunDetected ==
    \A j \in 1..Len(ret) :
        (pc # "start" /\ HasBit(what, FOG) /\ HasMasters(modInfos[j])
         /\ FogOverrun(modInfos[j].words, 0)) =>
            ret[j] = Undetermined

\* -------------------------------------------------------------- C14
\* an iteration of either loop that neither failed nor was cancelled
LoopStays == pc \in {"pass1", "pass2"} /\ pc' = pc /\ i' = i

\* the header under the cursor is that of a top-level group the scan skips
AtOpaqueGroup ==
    LET h == HeaderAt(modInfo.words, tell)
    IN  h.tag = "GRUP" /\ h.groupType = 0 /\ h.label \notin TrackedTops

\* C14: in both loops, an iteration that reads the header of a top-level
\* group whose label is neither CELL nor WRLD moves the cursor to the
\* group's declared end and changes neither the findings, the worklist, the
\* context nor pos; and no finding of a result is a record that lies inside
\* such a group.
C14_OpaqueSkipping ==
    /\ [][(LoopStays /\ AtOpaqueGroup) =>
            /\ tell' = tell + HeaderAt(modInfo.words, tell).size
            /\ udr' = udr
            /\ fog' = fog
            /\ parents_to_scan' = parents_to_scan
            /\ parentType' = parentType
            /\ parentFid' = parentFid
            /\ parentParentFid' = parentParentFid
            /\ pos' = pos]_vars
    /\ [](\A j \in 1..Len(ret) :
            (pc # "start" /\ Populated(ret[j]) /\ WellFormed(modInfos[j])) =>
                \A leaf \in LeavesOf(modInfos[j]) :
                    InSkippedTop(leaf) =>
                        /\ leaf.header.fid \notin FogOf(ret[j])
                        /\ \A u \in UdrOf(ret[j]) : u.fid # leaf.header.fid)

\* the second loop has just skipped a top-level group with a deleted
\* reference inside, which follows a cell with a finding
C14_Witness ==
    /\ pc = "pass2"
    /\ DOMAIN udr # {}
    /\ \E p \in 1..Len(modInfo.words) :
         /\ modInfo.words[p].tag = "GRUP"
         /\ modInfo.words[p].groupType = 0
         /\ modInfo.words[p].label \notin TrackedTops
         /\ tell = p - 1 + modInfo.words[p].size
         /\ \E q \in (p + 1)..tell :
              /\ modInfo.words[q].tag \in UdrTypes
              /\ HasBit(modInfo.words[q].flags1, DeletedFlag)
              /\ modInfo.words[q].fid \notin DOMAIN udr

\* -------------------------------------------------------------- C15
\* the CELL records with a compressed body, outside the skipped top groups
CompressedCells(f) ==
    { leaf \in LeavesOf(f) :
        /\ leaf.header.tag = "CELL"
        /\ HasBit(leaf.header.flags1, CompressedFlag)
        /\ ~InSkippedTop(leaf) }

\* C15: when FOG is requested, the result of a well-formed file with a
\* master is populated, and a CELL record with a compressed body is in its
\* fog set exactly when the lighting subrecord of the inflated body has
\* near, far and clip all zero, as for a record stored uncompressed.
C15_CompressionTransparency ==
    \A j \in 1..Len(ret) :
        (pc # "start" /\ HasBit(what, FOG) /\ HasMasters(modInfos[j])
         /\ WellFormed(modInfos[j])) =>
            \A leaf \in CompressedCells(modInfos[j]) :
                /\ Populated(ret[j])
                /\ (leaf.header.fid \in FogOf(ret[j]))
                      = (\E d \in SubData(modInfos[j], leaf, "XCLL") : AllZero(d))

\* -------------------------------------------------------------- C16
\* readFromMod is about to read a record with a compressed body that is a
\* deflate stream
AtCompressedRecord ==
    /\ pc = "det_loop"
    /\ ~AtEnd(modInfo.words, tell)
    /\ LET h == HeaderAt(modInfo.words, tell)
       IN  /\ h.tag # "GRUP"
           /\ HasBit(h.flags1, CompressedFlag)
           /\ h.size >= ZSizeWidth
           /\ ReadOk(modInfo.words, tell + HeaderSize, h.size)
           /\ IsStream(SubSeq(modInfo.words, tell + HeaderSize + ZSizeWidth + 1,
                              tell + HeaderSize + h.size))

\* the size the body under the cursor declares, and the words it inflates to
DeclaredSize == modInfo.words[tell + HeaderSize + 1].val[1]
Inflated ==
    InflateAll(SubSeq(modInfo.words, tell + HeaderSize + ZSizeWidth + 1,
                      tell + HeaderSize + HeaderAt(modInfo.words, tell).size))

\* the records of a file whose compressed body does not inflate to the size
\* it declares
MisSized(f) ==
    { leaf \in LeavesOf(f) :
        /\ HasBit(leaf.header.flags1, CompressedFlag)
        /\ leaf.header.size >= ZSizeWidth
        /\ ReadOk(f.words, leaf.at + HeaderSize, leaf.header.size)
        /\ f.words[leaf.at + HeaderSize + 1].val[1]
             # leaf.header.size - ZSizeWidth }

\* C16: when readFromMod reads a record with the compressed flag, the first
\* unit of the body is the declared size and the rest is inflated.  If the
\* inflated length differs from the declared size the call ends with
\* ModError and nothing is added to group_records; otherwise the pair added
\* has the first editor id of the whole inflated body.  No pair of
\* group_records ever has the fid of a mis-sized record.
C16_CompressedSizeCheck ==
    /\ [][AtCompressedRecord =>
            IF Len(Inflated) # DeclaredSize
            THEN /\ pc' = "raised"
                 /\ exc' = "ModError"
                 /\ group_records' = group_records
            ELSE /\ pc' = "det_loop"
                 /\ tell' = tell + HeaderSize + HeaderAt(modInfo.words, tell).size
                 /\ group_records' =
                       [group_records EXCEPT ![records] =
                          Append(@, <<HeaderAt(modInfo.words, tell).fid,
                                      FirstEid(Inflated, 0, Len(Inflated)).eid>>)]]_vars
    /\ [](\A key \in DOMAIN group_records :
            \A n \in 1..Len(group_records[key]) :
                \A leaf \in MisSized(modInfos[1]) :
                    group_records[key][n][1] # leaf.header.fid)

\* readFromMod has ended with ModError at the second record of a group, a
\* mis-sized one, after adding the pair of the first, a compressed record
\* with an editor id
C16_Witness ==
    /\ pc = "raised"
    /\ exc = "ModError"
    /\ "STAT" \in DOMAIN group_records
    /\ Len(group_records["STAT"]) = 1
    /\ group_records["STAT"][1][2] # NoEid
    /\ HasBit(modInfo.words[Len(Tes4) + HeaderSize + 1].flags1, CompressedFlag)
    /\ HasBit(HeaderAt(modInfo.words, tell).flags1, CompressedFlag)
    /\ HeaderAt(modInfo.words, tell).fid \in { l.header.fid : l \in MisSized(modInfo) }

\* -------------------------------------------------------------- C17
\* C17: a call of fix_fog on a well-formed file none of whose CELL records
\* has a lighting subrecord with near, far and clip all zero never changes
\* the file at the plugin path and never creates a backup; and when the call
\* returns, the temp file is gone and fixedCells is empty.
C17_FixerRoundTrip ==
    /\ (runs = 0 /\ WellFormed(modInfo) /\ DefectCells(modInfo) = {}) =>
        /\ disk.plugin = File(modInfo.words)
        /\ disk.backup = Missing
    /\ (runs = 1 /\ pc = "fix_returned" /\ WellFormed(modInfo)
        /\ DefectCells(modInfo) = {}) =>
        /\ disk.plugin = File(modInfo.words)
        /\ disk.backup = Missing
        /\ disk.temp = Missing
        /\ fixedCells = {}

\* fix_fog has returned from its first call on a well-formed file that has a
\* CELL record with a lighting subrecord, none with the defect
C17_Witness ==
    /\ pc = "fix_returned"
    /\ runs = 1
    /\ WellFormed(modInfo)
    /\ DefectCells(modInfo) = {}
    /\ \E leaf \in LeavesOf(modInfo) :
         /\ leaf.header.tag = "CELL"
         /\ ~InSkippedTop(leaf)
         /\ SubData(modInfo, leaf, "XCLL") # {}
    /\ disk.plugin = File(modInfo.words)
    /\ disk.temp = Missing

\* -------------------------------------------------------------- C18
\* the first call of fix_fog fixed a cell and replaced the file
FirstRunFixed == disk.backup # Missing /\ disk.backup # disk.plugin

\* C18: once a call of fix_fog on a well-formed file has returned, no step
\* of a later call on the same file changes the file at the plugin path or
\* the backup, and every later call returns with fixedCells empty and the
\* temp file gone.
C18_FixerIdempotence ==
    /\ [][(runs >= 1 /\ WellFormed(modInfo)) =>
            /\ disk'.plugin = disk.plugin
            /\ disk'.backup = disk.backup
            /\ pc' \notin {"fix_untemp", "fix_move"}]_vars
    /\ []((runs >= 2 /\ pc = "fix_returned" /\ WellFormed(modInfo)) =>
            /\ fixedCells = {}
            /\ disk.temp = Missing)

\* the second call of fix_fog has returned on a well-formed file in which
\* the first call fixed a cell
C18_Witness ==
    /\ pc = "fix_returned"
    /\ runs = 2
    /\ WellFormed(modInfo)
    /\ FirstRunFixed
    /\ DefectCells(modInfo) # {}
    /\ fixedCells = {}

\* -------------------------------------------------------------- C19
\* the offsets of the payloads of the subrecords of type subType in a body
RECURSIVE PayloadsAt(_, _, _, _)
PayloadsAt(ws, from, to, subType) ==
    IF from >= to THEN {}
    ELSE LET sh == ws[from + 1]
         IN  (IF sh.tag = subType /\ sh.size > 0 THEN {from + SubHeaderSize} ELSE {})
             \cup PayloadsAt(ws, from + SubHeaderSize + sh.size, to, subType)

\* the offsets in the file of the lighting payloads of a CELL record; those
\* of a compressed body are found in the inflated body
LightingAt(f, leaf) ==
    LET b == leaf.at + HeaderSize
        e == b + leaf.header.size
    IN  IF HasBit(leaf.header.flags1, CompressedFlag)
        THEN LET body == InflateAll(SubSeq(f.words, b + ZSizeWidth + 1, e))
             IN  { b + ZSizeWidth + q : q \in PayloadsAt(body, 0, Len(body), "XCLL") }
        ELSE { b + q : q \in PayloadsAt(SubSeq(f.words, b + 1, e), 0, e - b, "XCLL") }

\* the offsets of the lighting payloads with near, far and clip all zero
DefectPoints(f) ==
    UNION { { q \in LightingAt(f, leaf) : AllZero(f.words[q + 1].val) } :
              leaf \in { l \in LeavesOf(f) : l.header.tag = "CELL" /\ ~InSkippedTop(l) } }

\* the input with near set to 0.0001 at these offsets and nothing else changed
PatchedCopy(f) ==
    [ p \in 1..Len(f.words) |->
        IF p - 1 \in DefectPoints(f)
        THEN [f.words[p] EXCEPT !.val = <<Epsilon, @[2], @[3]>>]
        ELSE f.words[p] ]

\* the file that the running call of fix_fog reads
FixInput == [modInfo EXCEPT !.words = PluginWords]

\* C19: when the loop of fix_fog has reached the end of a well-formed input,
\* the temp file has the length of the input and equals it everywhere but at
\* the near field of each lighting subrecord of a CELL record whose near, far
\* and clip are all zero, where it holds 0.0001; and fixedCells is the set
\* of the fids of these CELL records.
C19_VerbatimExceptPatch ==
    (pc = "fix_walk" /\ AtEnd(PluginWords, tell) /\ WellFormed(FixInput)) =>
        /\ disk.temp # Missing
        /\ Len(disk.temp[1]) = Len(PluginWords)
        /\ disk.temp = File(PatchedCopy(FixInput))
        /\ fixedCells = DefectCells(FixInput)

\* -------------------------------------------------------------- C20
\* the content of the plugin path when the running call of fix_fog began
OriginalWords ==
    AfterFixes(modInfo.words, IF pc = "fix_returned" THEN runs - 1 ELSE runs)

\* C20: in every state of a call of fix_fog the plugin path holds a file,
\* with either the complete content it had when the call began or the
\* complete fixed content; whenever it no longer holds the original content
\* the backup holds it; and a call that returns with a fixed cell has left
\* the original content in the backup and the fixed content at the plugin
\* path.
C20_BackupThenReplace ==
    /\ disk.plugin \in {File(OriginalWords), File(AfterFix(OriginalWords))}
    /\ disk.plugin # File(OriginalWords) => disk.backup = File(OriginalWords)
    /\ (pc = "fix_returned" /\ fixedCells # {}) =>
          /\ disk.backup = File(OriginalWords)
          /\ disk.plugin = File(AfterFix(OriginalWords))
          /\ disk.temp = Missing

\* the same but for the state between the two halves of Path.untemp
C20_OutsideUntemp == pc # "fix_move" => C20_BackupThenReplace

\* -------------------------------------------------------------- C21
\* the exceptions a header or payload decode of the walk can end with
DecodeErrors == {"ModReadError", "struct.error"}

\* C21: a call of fix_fog that ends with CancelError or with a decode error
\* leaves the plugin path with the content it had when the call began and
\* leaves the backup as it was (none, in a first call): no step of the walk
\* and no step that raises changes either of them, and the temp file is not
\* moved to the plugin path.
C21_AbortLeavesOriginal ==
    /\ []((pc = "raised" /\ exc \in DecodeErrors \cup {"CancelError"}) =>
            /\ disk.plugin = File(AfterFixes(modInfo.words, runs))
            /\ (runs = 0 => disk.backup = Missing))
    /\ [][(pc = "fix_walk" /\ pc' \in {"fix_walk", "raised"}) =>
            /\ disk'.plugin = disk.plugin
            /\ disk'.backup = disk.backup]_vars

\* the walk has ended with a decode error after part of the file, a fixed
\* lighting subrecord included, was written to the temp file
C21_Witness ==
    /\ pc = "raised"
    /\ exc \in DecodeErrors
    /\ fixedCells # {}
    /\ disk.temp # Missing
    /\ Len(disk.temp[1]) > 0
    /\ disk.temp # disk.plugin
    /\ disk.plugin = File(modInfo.words)

\* -------------------------------------------------------------- C22
\* C22: when a call of fix_fog has ended with the CancelError of the
\* progress callback, there is no temp file.
C22_CancelDiscardsTemp ==
    (pc = "raised" /\ exc = "CancelError") => disk.temp = Missing

\* -------------------------------------------------------------- C23
\* the tags of the top-level groups of a file
TopLabels(f) == { leaf.enc[1].label : leaf \in { l \in LeavesOf(f) : l.enc # <<>> } }

\* the editor id of a leaf record: that of its first EDID subrecord
EidOfLeaf(f, leaf) ==
    LET subs == SubrecordsOf(f, leaf)
        at == { n \in 1..Len(subs) : subs[n].subType = "EDID" }
    IN  IF at = {} THEN NoEid
        ELSE subs[CHOOSE n \in at : \A m \in at : n <= m].data[1]

\* the (fid, editor id) pairs of the leaf records at offset p or later that
\* lie in a top-level group tagged label, in file order
RECURSIVE PairsFrom(_, _, _, _)
PairsFrom(f, leaves, label, p) ==
    IF p >= Len(f.words) THEN <<>>
    ELSE LET here == { l \in leaves : l.at = p /\ l.enc # <<>> /\ l.enc[1].label = label }
         IN  (IF here = {} THEN <<>>
              ELSE LET leaf == CHOOSE l \in here : TRUE
                   IN  << <<leaf.header.fid, EidOfLeaf(f, leaf)>> >>)
             \o PairsFrom(f, leaves, label, p + 1)

\* the mapping of a well-formed file
ExpectedDetails(f) ==
    [ label \in TopLabels(f) |->
        IF label \in SkippedLabels THEN <<>>
        ELSE PairsFrom(f, LeavesOf(f), label, 0) ]

\* every record but the plugin header lies in a top-level group
AllInGroups(f) == \A l \in LeavesOf(f) : l.enc = <<>> => l.at = 0

\* C23: when readFromMod returns for a well-formed file all of whose records
\* but the header lie in groups, group_records maps the tag of each
\* top-level group to the (fid, editor id) pairs of all the leaf records of
\* the groups of that tag, in file order, the editor id being that of the
\* record's first EDID subrecord or the empty one; a CELL, WRLD or DIAL
\* top-level group has no pair.
C23_ModDetails ==
    (pc = "det_done" /\ WellFormed(modInfo) /\ AllInGroups(modInfo)) =>
        group_records = ExpectedDetails(modInfo)

\* the same for files whose groups outside CELL, WRLD and DIAL hold leaf
\* records only
C23_FlatGroups ==
    (pc = "det_done" /\ WellFormed(modInfo) /\ AllInGroups(modInfo)
     /\ \A l \in LeavesOf(modInfo) :
          l.enc # <<>> => (l.enc[1].label \in SkippedLabels \/ Len(l.enc) = 1)) =>
        group_records = ExpectedDetails(modInfo)

\* -------------------------------------------------------------- C24
RatLeq(a, b) == a[1] * b[2] <= b[1] * a[2]
RatEq(a, b) == a[1] * b[2] = b[1] * a[2]

\* C24: every fraction given to the top-level progress callback during
\* scan_Many lies in [0, 1]; the report made at the start of file i of N is
\* i/N; and each fraction reported is at least the one reported before it,
\* within a pass, from pass 1 to pass 2, and from one file to the next.
C24_ProgressProtocol ==
    /\ [](reported # NoReport =>
            /\ reported[2] > 0
            /\ RatLeq(RatOf(0), reported)
            /\ RatLeq(reported, RatOf(1)))
    /\ [][(pc = "file" /\ i < N) => RatEq(reported', <<i, N>>)]_vars
    /\ [][reported # NoReport => RatLeq(reported, reported')]_vars

\* in detailed mode the second loop over the second file of a batch has just
\* reported a fraction above that of the middle of the file
C24_Witness ==
    /\ pc = "pass2"
    /\ detailed
    /\ N = 2
    /\ i = 1
    /\ tell > 0
    /\ reported # NoReport
    /\ RatLeq(<<3, 4>>, reported)
    /\ ~RatLeq(RatOf(1), reported)

\* -------------------------------------------------------------- C25
\* the key has a default and the current value is that default
EqualsDefault(S, k) == k \in DOMAIN S.defaults /\ S.data[k] = S.defaults[k]

\* C25: __setitem__ marks its key as changed and setdefault marks none; and
\* after any operations followed by save(), the persisted dictionary is the
\* one persisted before, where every changed key holds its current value if
\* that differs from the key's default and is absent if it equals the
\* default, every deleted key that is not changed is absent, and every
\* other key is as it was.
C25_SettingsChangeTracking ==
    /\ settings.last = "setitem" => settings.changed # {}
    /\ settings.last = "save" =>
          \A k \in SettingKeys :
              IF k \in settings.changed
              THEN IF EqualsDefault(settings, k)
                   THEN k \notin DOMAIN settings.stored
                   ELSE /\ k \in DOMAIN settings.stored
                        /\ settings.stored[k] = settings.data[k]
              ELSE IF k \in settings.deleted
              THEN k \notin DOMAIN settings.stored
              ELSE /\ (k \in DOMAIN settings.stored) = (k \in DOMAIN settings.before)
                   /\ k \in DOMAIN settings.stored =>
                         settings.stored[k] = settings.before[k]

\* the same for objects none of whose values is None
C25_WithoutNone ==
    (\A k \in DOMAIN settings.data : settings.data[k] # None)
        => C25_SettingsChangeTracking

\* -------------------------------------------------------------- C26
\* the file exists and all three objects can be read from it
ReadsWell(f) == f.exists /\ f.first = "VDATA2" /\ f.verr = "" /\ f.derr = ""

\* C26: a call of PickleDict.load returns; it returns 1 exactly when the
\* primary file exists and can be read, 2 exactly when the primary is
\* missing or cannot be read and the backup can, and 0 otherwise.  When it
\* returns 0 data is empty; when it returns 1 or 2 data is the dictionary
\* of the file read; and every entry of vdata is one of a file of this
\* load.
C26_PickleLoadFallback ==
    pickle.last = "load" =>
        LET primary == pickle.before[1]
            backup == pickle.before[2]
        IN  /\ pickle.exc = ""
            /\ pickle.ret \in {0, 1, 2}
            /\ (pickle.ret = 1) = ReadsWell(primary)
            /\ (pickle.ret = 2) = (~ReadsWell(primary) /\ ReadsWell(backup))
            /\ pickle.ret = 0 => pickle.data = EmptyDict
            /\ pickle.ret = 1 => pickle.data = primary.data
            /\ pickle.ret = 2 => pickle.data = backup.data
            /\ \A k \in DOMAIN pickle.vdata :
                  \/ k \in DOMAIN primary.vdata /\ primary.exists
                  \/ k \in DOMAIN backup.vdata /\ backup.exists

\* the same for calls that an exception does not leave
C26_WhenItReturns ==
    (pickle.last = "load" /\ pickle.exc = "") => C26_PickleLoadFallback

\* -------------------------------------------------------------- C27
\* the list without its element e
RECURSIVE ElemsBut(_, _)
ElemsBut(l, e) ==
    IF l = <<>> THEN <<>>
    ELSE (IF Head(l) = e THEN <<>> ELSE <<Head(l)>>) \o ElemsBut(Tail(l), e)

Count(l, e) == Cardinality({ n \in 1..Len(l) : l[n] = e })

\* C27: discard(e) on an OrderedSet that contains e returns and leaves the
\* other elements in their order, without e; and an add(e) that follows it
\* leaves these elements in their order followed by e, e occurring once.
C27_DiscardAndReAdd ==
    /\ (oset.last = "discard" /\ Contains(oset.before, oset.arg)) =>
          /\ oset.exc = ""
          /\ oset.items = ElemsBut(oset.before, oset.arg)
    /\ (oset.last = "add" /\ oset.prev = "discard" /\ oset.prevArg = oset.arg
        /\ Contains(oset.prevBefore, oset.arg)) =>
          /\ oset.items = Append(ElemsBut(oset.prevBefore, oset.arg), oset.arg)
          /\ Count(oset.items, oset.arg) = 1

\* -------------------------------------------------------------- C28
\* C28: the result of a file with no master is the triple of empty findings,
\* whatever the file holds and whatever the mask; the step that starts such
\* a file appends this result and goes on to the next file without opening
\* the file, so an unreadable file raises nothing; and neither loop ever
\* runs on a file with no master.
C28_MasterlessNeverWalked ==
    /\ [](pc # "start" =>
            \A j \in 1..Len(ret) : ~HasMasters(modInfos[j]) => ret[j] = EmptyResult)
    /\ []((pc \in {"pass1", "pass2"}) => HasMasters(modInfo))
    /\ [][(pc = "file" /\ i < N /\ ~HasMasters(modInfo) /\ exc' # "CancelError") =>
            /\ pc' = "file"
            /\ i' = i + 1
            /\ ret' = Append(ret, EmptyResult)
            /\ exc' = exc]_vars

\* a scan for all detectors has returned the empty triple for a file with no
\* master that cannot be opened and holds a deleted reference and a
\* defective lighting subrecord
C28_Witness ==
    /\ pc = "done"
    /\ what = ALL
    /\ N = 1
    /\ ~HasMasters(modInfos[1])
    /\ ~modInfos[1].readable
    /\ DeletedRefs(modInfos[1]) # {}
    /\ DefectCells(modInfos[1]) # {}
    /\ ret = <<EmptyResult>>

\* -------------------------------------------------------------- C29
\* C29: in the result of a detailed scan of a well-formed file, the position
\* of a finding, when it has one, is the grid coordinate of the XCLC
\* subrecord of the finding's own parent CELL record, and a finding whose
\* parent CELL record has no XCLC subrecord has no position.
C29_NoStalePosition ==
    \A j \in 1..Len(ret) :
        (detailed /\ Populated(ret[j]) /\ WellFormed(modInfos[j])) =>
            \A u \in UdrOf(ret[j]) :
                /\ u.pos # NoPos =>
                      \E c \in RecordsWith(modInfos[j], "CELL", u.parentFid) :
                          u.pos \in GridsOf(modInfos[j], c)
                /\ \A c \in RecordsWith(modInfos[j], "CELL", u.parentFid) :
                      GridsOf(modInfos[j], c) = {} => u.pos = NoPos

\* -------------------------------------------------------------- C30
\* what scan_Many returns for the one file f with only FOG requested
FogScan(f) == ScanManyResult(<<f>>, FOG, FALSE)[1]

====
